---- MODULE Spec2Model ----
(***************************************************************************)
(* A model of the cfbd-etl seeder: the process entry point (main), the     *)
(* schema setup and its sentinel (Database.Initialize / IsInitialized),    *)
(* the upsert writers of Database, the fan-out seed tasks                  *)
(* (Seeder.SeedWinProbability / SeedAdvancedBoxScore) and the throttle     *)
(* (Seeder.throttle over a token bucket).                                  *)
(*                                                                         *)
(* Each component has its own specification over the shared variables:     *)
(*   SpecMain     main: startup, schema setup, the six phases, exit        *)
(*   SpecWriter   one reference-data Seed task and its Insert writer       *)
(*   SpecTask     one multi-request Seed task: SeedPlays or a fan-out task  *)
(*   SpecFanOutFair  a fan-out task in its last year, under fairness        *)
(*   SpecLimiter, SpecCaller  the token bucket and one caller of throttle   *)
(*   SpecSiblings two sibling tasks that write one table                    *)
(*   SpecBatch    the accumulator of SeedAdvancedBoxScore, by sizes         *)
(*   SpecYearly   a task that fetches once per supported year               *)
(* The variables a specification does not use keep their initial value.    *)
(***************************************************************************)
EXTENDS Integers, Sequences, FiniteSets, Bags, TLC

VARIABLES
    \* ---- the process (main) ----
    pc,          \* where main is
    run,         \* how many times the process has been started
    dsn,         \* DATABASE_DSN of this run
    apiKey,      \* CFBD_API_KEY of this run
    exitCode,    \* the exit code, meaningful when pc = "exited"
    phase,       \* the phase main is in (0 before phase 1)
    goIdx,       \* how many tasks of the current phase main has handed to Go
    status,      \* status[t] in this run: "idle", "spawned" (handed to Go),
                 \* "running", "mid" (see TaskMid), "ok", "err" (returned)
    groupErr,    \* errgroup.err of the current phase: the first failing task, or "nil"
    ctxDone,     \* ctxDone[k]: the context of phase k has been cancelled
    execCtx,     \* Seeder.ctx: 0 = never set, k = the context of phase k
    seenCtx,     \* seenCtx[t]: the Seeder.ctx task t read when it began
    \* ---- the store: schema ----
    schema,      \* the cfbd schema exists
    tables,      \* the tables that exist in the cfbd schema
    constraints, \* manually applied constraints that exist in the cfbd schema
    migPos,      \* Initialize: <<step, table>> being migrated
    sentinel,    \* what IsInitialized returned in this run ("none" before it ran)
    \* ---- the store: what the phases wrote (as far as main's claims need it) ----
    gamesRun,    \* the run in which SeedGames last wrote the games table (0 = never)
    idsReadRun,  \* idsReadRun[t]: value of gamesRun seen by fan-out task t's GetGameIDs
    \* ---- one reference-data task and its writer ----
    writer,      \* the writer the task calls: "PlayTypes", "PlayStatTypes", "PlayStats"
    wpc,         \* "idle", "fetched", "inserted", "refetched", "reinserted", "failed"
    wBatch,      \* the records the last fetch returned
    wErr,        \* what the last call returned: "nil", "conflict" (the store rejected
                 \* the statement), "fault" (the store was unreachable), "fetch"
    rows,        \* the writer's table: key -> columns, or the sequence of its rows
    wPrev,       \* the table as it was before the last writer call
    \* ---- one multi-request Seed task of the throttled seeder ----
    fTask,       \* "SeedPlays", "SeedWinProbability" or "SeedAdvancedBoxScore"
    fpc,         \* where the task is
    fYear,       \* index of the supported year being processed
    fGames,      \* how many game IDs (SeedPlays: calendar weeks) this year has
    fNext,       \* the next game ID to hand to group.Go (SeedPlays: the week)
    wk,          \* wk[g]: the worker of game g: "none", "throttle", "fetch",
                 \* "write", "errThrottle", "errFetch", "errWrite" (the
                 \* function holds an error), "retNil", "retErr"
    wParams,     \* wParams[g]: the keys worker g is about to write
    got,         \* got[g]: what the fetch for g gave: "none", "record", "empty", "err"
    fBatch,      \* the keys of the accumulator (batch) of SeedAdvancedBoxScore
    fGroupErr,   \* errgroup.err of the worker pool: "nil", "throttle", "write"
    sCtxDone,    \* Seeder.ctx (the phase's context) has been cancelled
    fErr,        \* what the task returned ("nil" while it runs)
    fRows,       \* the rows the task has written: <<year, key>>
    flushes,     \* the bag of this year's writer invocations
    injected,    \* the bag of the failures the environment has produced, by kind
    held,        \* who holds a throttle acquisition not yet used (0 is the task)
    unthrottled, \* a request has been issued without a fresh acquisition
    \* ---- the rate limiter behind Seeder.throttle ----
    tokens,      \* the bucket, in ticks' worth of tokens (negative: reserved ahead)
    waits,       \* the ticks each waiting caller still has to wait
    ppc,         \* one caller followed by name: "absent", "idle", "waiting"
    pWait,       \* the ticks that caller still has to wait
    pLast,       \* what its last call returned: "none", "granted", "rejected"
    granted,     \* how many throttle calls have returned nil (up to MaxGranted)
    elapsed,     \* how many ticks have passed (up to MaxElapsed)
    rejected,    \* a call whose context was not cancelled has returned an error
    cancels,     \* how many waiting callers have had their context cancelled
    \* ---- two sibling tasks of phase 5 that write the same table ----
    sibPc,       \* sibPc[t]: "throttle", "fetch", "insert", "retNil", "retErr"
    sibYear,     \* sibYear[t]: index of the supported year task t is processing
    sibGot,      \* sibGot[t][y]: what the upstream returned to task t for year y
    epa,         \* the player_weighted_epa table: <<year, athlete_id>> -> columns
    \* ---- the accumulator of SeedAdvancedBoxScore in one year, by size ----
    bPc,         \* where the year is: "spawn", "wait", "done"
    bGames,      \* len(gameIDs)
    bNext,       \* how many game IDs have been handed to group.Go
    bFetching,   \* how many workers are before the critical section
    bLen,        \* len(batch)
    bParams,     \* the bag of len(params) of the workers whose write is in progress
    bWritten,    \* how many entries have been written
    \* ---- a task that fetches once per year: SeedCalendar, SeedGames, SeedDrives ----
    yTask,       \* the task
    yPc,         \* where it is: "throttle", "fetch", "insert", "done"
    yYear,       \* the index of the year in supportedYears
    yGot,        \* yGot[y]: how many records the fetch of year y returned (-1 = none yet)
    yAll,        \* the records the next writer call is given, as <<year, i>>
    yRows,       \* the records the store holds
    yWrites,     \* how many writer calls the task has made
    yErr         \* the error the task returns ("nil" = none)

mainVars == <<pc, run, dsn, apiKey, exitCode, phase, goIdx, status, groupErr, ctxDone,
              execCtx, seenCtx, sentinel, gamesRun, idsReadRun>>
schemaVars == <<schema, tables, constraints, migPos>>
writerVars == <<writer, wpc, wBatch, wErr, rows, wPrev>>
taskVars == <<fTask, fpc, fYear, fGames, fNext, wk, wParams, got, fBatch, fGroupErr,
              sCtxDone, fErr, fRows, flushes, injected, held, unthrottled>>
limiterVars == <<tokens, waits, ppc, pWait, pLast, granted, elapsed, rejected, cancels>>
siblingVars == <<sibPc, sibYear, sibGot, epa>>
batchVars == <<bPc, bGames, bNext, bFetching, bLen, bParams, bWritten>>
yearVars == <<yTask, yPc, yYear, yGot, yAll, yRows, yWrites, yErr>>
vars == <<mainVars, schemaVars, writerVars, taskVars, limiterVars, siblingVars,
          batchVars, yearVars>>

\* what the steps of one component leave alone
exceptMain == <<writerVars, taskVars, limiterVars, siblingVars, batchVars,
    yearVars>>
exceptWriter == <<mainVars, schemaVars, taskVars, limiterVars, siblingVars, batchVars,
    yearVars>>
exceptTask == <<mainVars, schemaVars, writerVars, limiterVars, siblingVars, batchVars,
    yearVars>>
exceptLimiter == <<mainVars, schemaVars, writerVars, taskVars, siblingVars, batchVars,
    yearVars>>
exceptSiblings == <<mainVars, schemaVars, writerVars, taskVars, limiterVars, batchVars,
    yearVars>>
exceptBatch == <<mainVars, schemaVars, writerVars, taskVars, limiterVars, siblingVars,
    yearVars>>
exceptYearly == <<mainVars, schemaVars, writerVars, taskVars, limiterVars, siblingVars,
    batchVars>>

(***************************************************************************)
(* Bounds of the model.                                                    *)
(***************************************************************************)
\* how many tasks of each phase are modelled
MaxPhaseTasks == 3
\* how many times the process is started against the same store
MaxRuns == 2
\* len(batch) >= 100 in SeedAdvancedBoxScore, scaled down
FlushThreshold == 2
\* group.SetLimit(10) in the fan-out tasks, scaled down with the threshold
PoolLimit == 2
\* how many weeks a calendar has at most
MaxWeeks == 2
\* how many failures the environment produces at most in one behaviour
MaxInjected == 1
\* len(supportedYears)
NumYears == 2
\* rate.NewLimiter(rate.Limit(10), 20): tokens per second
Rate == 10
\* rate.NewLimiter(rate.Limit(10), 20): the burst
Burst == 20
\* context.WithTimeout(ctx, 30*time.Second) in Seeder.throttle
WaitSeconds == 30
\* group.SetLimit(10): the workers of a fan-out task that call the throttle
WorkerLimit == 10
\* the ticks of the clock in the time the limiter takes to add one token
TicksPerToken == 2
\* how many acquisitions beyond the burst are counted
MaxExtraCalls == 2
\* how many waiting callers have their context cancelled at most
MaxCancels == 1

(***************************************************************************)
(* Strings are sequences of characters, so that trimming is computed.      *)
(***************************************************************************)
IsSpace(c) == c = " "

RECURSIVE TrimLeft(_)
TrimLeft(s) == IF s # <<>> /\ IsSpace(Head(s)) THEN TrimLeft(Tail(s)) ELSE s

RECURSIVE TrimRight(_)
TrimRight(s) ==
    IF s # <<>> /\ IsSpace(s[Len(s)]) THEN TrimRight(SubSeq(s, 1, Len(s) - 1)) ELSE s

\* A trim that removes nothing.
NoTrim(s) == s

\* strings.TrimSpace
TrimSpace(s) == TrimRight(TrimLeft(s))

(***************************************************************************)
(* Schema setup: Database.Initialize and Database.IsInitialized.           *)
(***************************************************************************)
\* The AutoMigrate calls of Initialize, in order, each with its tables.
MigrationSteps == <<
    <<"venues", "conferences", "teams">>,
    <<"games">>,
    <<"matchups", "matchup_games">>,
    <<"calendar_weeks", "scoreboards", "team_records">>,
    <<"play_types", "play_stat_types", "drives", "plays", "play_stats">>,
    <<"game_team_stats", "game_team_stats_teams", "game_team_stats_team_stats",
      "game_player_stats", "game_player_stats_teams", "game_player_stat_categories",
      "game_player_stat_types", "game_player_stat_players">>,
    <<"live_games", "live_game_teams", "live_game_drives", "live_game_plays">>,
    <<"game_media", "game_weather">>,
    <<"play_win_probability", "pregame_win_probability", "field_goal_ep">>,
    <<"predicted_points_values", "team_season_predicted_points_added",
      "team_game_predicted_points_added", "player_game_predicted_points_added",
      "player_season_predicted_points_added">>,
    <<"advanced_box_scores">>,
    <<"roster_players", "player_search_results", "player_usage_splits",
      "player_usage", "returning_production", "player_transfers", "player_stats",
      "team_stats">>,
    <<"recruit_hometown_infos", "recruits", "team_recruiting_rankings",
      "aggregated_team_recruiting">>,
    <<"team_sp", "conference_sp", "team_srs", "team_elo", "team_fpi">>,
    <<"poll_weeks", "polls", "poll_ranks">>,
    <<"betting_games", "game_lines">>,
    <<"draft_teams", "draft_positions", "draft_pick_hometown_infos", "draft_picks">>,
    <<"coaches", "coach_seasons">>,
    <<"adjusted_team_metrics", "player_weighted_epa", "kicker_paar", "team_ats",
      "team_talent", "game_havoc_stat_sides", "game_havoc_stats", "adv_rate_metrics",
      "adv_havoc", "adv_field_position", "adv_season_stat_side",
      "advanced_season_stats_normalized", "adv_game_stat_side",
      "advanced_game_stats_normalized">>,
    <<"user_info", "int32_lists">> >>

AllTables == UNION {{MigrationSteps[s][i] : i \in 1..Len(MigrationSteps[s])} :
                    s \in 1..Len(MigrationSteps)}

\* A sentinel list that leaves out the table of the last migration step.
RequiredTablesEarly == {
    "venues", "conferences", "teams",
    "games",
    "drives", "plays", "play_types", "play_stat_types", "play_stats",
    "game_team_stats", "game_player_stats",
    "recruits", "team_sp", "poll_weeks", "betting_games", "draft_picks", "coaches" }

\* requiredTables of IsInitialized
RequiredTables == {
    "venues", "conferences", "teams",
    "games",
    "drives", "plays", "play_types", "play_stat_types", "play_stats",
    "game_team_stats", "game_player_stats",
    "recruits", "team_sp", "poll_weeks", "betting_games", "draft_picks", "coaches",
    "int32_lists" }

\* SELECT COUNT(*) FROM information_schema.tables WHERE table_schema = 'cfbd'
\*   AND table_name IN requiredTables
FoundCount(sch, tbls) == IF sch THEN Cardinality(tbls \cap RequiredTables) ELSE 0

\* A check that looks at the schema only.
IsInitializedSchemaOnly(sch, tbls) == sch

\* The value IsInitialized returns for a store (its queries succeeding).
IsInitialized(sch, tbls) ==
    IF ~sch THEN FALSE
    ELSE IF FoundCount(sch, tbls) # Cardinality(RequiredTables) THEN FALSE
    ELSE TRUE

\* The position after <<s, i>> in Initialize; <<Len + 1, 1>> is "return nil".
NextMigPos(p) ==
    IF p[1] = 0 THEN <<1, 1>>
    ELSE IF p[2] < Len(MigrationSteps[p[1]]) THEN <<p[1], p[2] + 1>>
    ELSE <<p[1] + 1, 1>>

\* An Initialize that returns nil before its last AutoMigrate call.
MigDoneEarly(p) == p[1] >= Len(MigrationSteps)

MigDone(p) == p[1] = Len(MigrationSteps) + 1

\* The tables of the last AutoMigrate call of Initialize ("20) Misc").
LastStepTables ==
    LET last == MigrationSteps[Len(MigrationSteps)]
    IN {last[i] : i \in 1..Len(last)}

(***************************************************************************)
(* main: the phases and their tasks.                                       *)
(***************************************************************************)
\* The tasks main hands to each phase's errgroup, in order.
PhaseTable == <<
    <<"SeedVenues", "SeedPlayTypes", "SeedStatTypes", "SeedDraftTeams",
      "SeedConferences", "SeedFieldGoalEP", "SeedDraftPositions">>,
    <<"SeedTeams">>,
    <<"SeedCalendar", "SeedGames">>,
    <<"SeedDrives", "SeedPlays", "SeedPlayStats", "SeedGameTeamStats",
      "SeedGamePlayerStats", "SeedWinProbability", "SeedAdvancedBoxScore",
      "SeedGameWeather", "SeedGameMedia", "SeedBettingLines">>,
    <<"SeedTeamRecords", "SeedTeamTalentComposite", "SeedTeamATS", "SeedTeamSPPlus",
      "SeedConferenceSPPlus", "SeedTeamSRSRankings", "SeedTeamEloRankings",
      "SeedTeamFPIRankings", "SeedWepaTeamSeason", "SeedWepaPassing",
      "SeedWepaRushing", "SeedWepaKicking", "SeedReturningProduction",
      "SeedPortalPlayers", "SeedSeasonPlayerStats", "SeedSeasonTeamStats",
      "SeedRankings">>,
    <<"SeedRecruits", "SeedRecruitingRankings", "SeedDraftPicks">> >>

NumPhases == Len(PhaseTable)

Min(a, b) == IF a < b THEN a ELSE b
Max(a, b) == IF a > b THEN a ELSE b

\* The tasks of phase k that are modelled, in registration order: the first
\* MaxPhaseTasks of the phase, counted in phase 4 from its first fan-out task.
PhaseWindows ==
    [k \in 1..NumPhases |->
        LET all == PhaseTable[k]
            first == IF \E i \in 1..Len(all) : all[i] = "SeedWinProbability"
                     THEN CHOOSE i \in 1..Len(all) : all[i] = "SeedWinProbability"
                     ELSE 1
        IN SubSeq(all, first, Min(Len(all), first + MaxPhaseTasks - 1))]

PhaseWindow(k) == PhaseWindows[k]

PhaseTaskSets == [k \in 1..NumPhases |-> {PhaseWindows[k][i] : i \in 1..Len(PhaseWindows[k])}]
PhaseTasks(k) == PhaseTaskSets[k]
Tasks == UNION {PhaseTaskSets[k] : k \in 1..NumPhases}
PhaseOfTask == [t \in Tasks |-> CHOOSE k \in 1..NumPhases : t \in PhaseTaskSets[k]]
PhaseOf(t) == PhaseOfTask[t]

\* The tasks that read the game IDs of the store before they fan out.
FanOutTasks == {"SeedWinProbability", "SeedAdvancedBoxScore"} \cap Tasks


\* The environment of a run: DATABASE_DSN missing, blank or set; CFBD_API_KEY
\* missing or set.
DSNs == {<<>>, <<" ">>, <<"d", "b">>}
APIKeys == {<<>>, <<"k">>}

Returned(t) == status[t] \in {"ok", "err"}

\* A Wait that returns as soon as one task has returned.
WaitReturnsEarly(k) == \E t \in PhaseTasks(k) : Returned(t)

\* errgroup.Group.Wait blocks until every function handed to Go has returned.
WaitReturns(k) == \A t \in PhaseTasks(k) : Returned(t)

\* A main that ignores the error of Wait.
PhaseFailedIgnored == FALSE

\* `if phaseErr := phase.Wait(); phaseErr != nil`
PhaseFailed == groupErr # "nil"

\* os.Exit(code), or main returning (code 0).
Exit(code) ==
    /\ pc' = "exited"
    /\ exitCode' = code

procIdle == <<run, dsn, apiKey, phase, goIdx, status, groupErr, ctxDone, execCtx,
              seenCtx, gamesRun, idsReadRun>>

\* main.go:22 NewDatabase: a blank DSN or a failing gorm.Open is an error.
NewDatabase ==
    /\ pc = "NewDatabase"
    /\ \E opens \in BOOLEAN :
          IF TrimSpace(dsn) = <<>> \/ ~opens
          THEN Exit(1)
          ELSE pc' = "IsInitialized" /\ UNCHANGED exitCode
    /\ UNCHANGED <<procIdle, sentinel, schemaVars>>

\* main.go:28 IsInitialized and the branch on its result.
CheckInitialized ==
    /\ pc = "IsInitialized"
    /\ \E queryFails \in BOOLEAN :
          IF queryFails
          THEN Exit(1) /\ UNCHANGED <<sentinel, migPos>>
          ELSE /\ sentinel' = IF IsInitialized(schema, tables) THEN "true" ELSE "false"
               /\ IF IsInitialized(schema, tables)
                  THEN pc' = "NewClient" /\ UNCHANGED migPos
                  ELSE pc' = "Initialize" /\ migPos' = <<0, 1>>
               /\ UNCHANGED exitCode
    /\ UNCHANGED <<procIdle, schema, tables, constraints>>

\* db.go:86 CREATE SCHEMA IF NOT EXISTS cfbd
CreateSchema ==
    /\ pc = "Initialize"
    /\ migPos[1] = 0
    /\ \E fails \in BOOLEAN :
          IF fails
          THEN Exit(1) /\ UNCHANGED <<schema, migPos>>
          ELSE schema' = TRUE /\ migPos' = NextMigPos(migPos) /\ UNCHANGED <<pc, exitCode>>
    /\ UNCHANGED <<procIdle, sentinel, tables, constraints>>

\* db.go:93-312 one table of one AutoMigrate call: created unless it exists.
MigrateTable ==
    /\ pc = "Initialize"
    /\ migPos[1] \in 1..Len(MigrationSteps)
    /\ \E fails \in BOOLEAN :
          IF fails
          THEN Exit(1) /\ UNCHANGED <<tables, migPos>>
          ELSE /\ tables' = tables \cup {MigrationSteps[migPos[1]][migPos[2]]}
               /\ migPos' = NextMigPos(migPos)
               /\ UNCHANGED <<pc, exitCode>>
    /\ UNCHANGED <<procIdle, sentinel, schema, constraints>>

\* db.go:314 Initialize returns nil
InitializeReturns ==
    /\ pc = "Initialize"
    /\ MigDone(migPos)
    /\ pc' = "NewClient"
    /\ UNCHANGED <<procIdle, exitCode, sentinel, schemaVars>>

\* main.go:41 cfbd.New(os.Getenv("CFBD_API_KEY"))
NewClient ==
    /\ pc = "NewClient"
    /\ IF apiKey = <<>> THEN Exit(1) ELSE pc' = "NewSeeder" /\ UNCHANGED exitCode
    /\ UNCHANGED <<procIdle, sentinel, schemaVars>>

\* main.go:47 NewSeeder never fails; main.go:53 ctx := context.Background()
NewSeeder ==
    /\ pc = "NewSeeder"
    /\ pc' = "PhaseStart"
    /\ phase' = 1
    /\ UNCHANGED <<run, dsn, apiKey, exitCode, goIdx, status, groupErr, ctxDone,
                   execCtx, seenCtx, sentinel, gamesRun, idsReadRun, schemaVars>>

\* a phase that does not hand its context to the seeder
ContextNotSet(k) == execCtx

\* main.go:59-60, seeder.go:68-70 SetExecutionContext(phaseCtx): s.ctx is the
\* context of phase k
ContextOfPhase(k) == k

\* main.go:59-60 errgroup.WithContext(ctx); seeder.SetExecutionContext(phaseCtx)
PhaseStart ==
    /\ pc = "PhaseStart"
    /\ groupErr' = "nil"
    /\ execCtx' = ContextOfPhase(phase)
    /\ goIdx' = 0
    /\ pc' = "PhaseGo"
    /\ UNCHANGED <<run, dsn, apiKey, exitCode, phase, status, ctxDone, seenCtx,
                   sentinel, gamesRun, idsReadRun, schemaVars>>

\* main.go:62-68 phase.Go(task): the task's goroutine is started
PhaseGo ==
    /\ pc = "PhaseGo"
    /\ goIdx < Len(PhaseWindow(phase))
    /\ goIdx' = goIdx + 1
    /\ status' = [status EXCEPT ![PhaseWindow(phase)[goIdx + 1]] = "spawned"]
    /\ UNCHANGED <<pc, run, dsn, apiKey, exitCode, phase, groupErr, ctxDone, execCtx,
                   seenCtx, sentinel, gamesRun, idsReadRun, schemaVars>>

\* main.go:70 main reaches phase.Wait()
PhaseAllGone ==
    /\ pc = "PhaseGo"
    /\ goIdx = Len(PhaseWindow(phase))
    /\ pc' = "PhaseWait"
    /\ UNCHANGED <<run, dsn, apiKey, exitCode, phase, goIdx, status, groupErr, ctxDone,
                   execCtx, seenCtx, sentinel, gamesRun, idsReadRun, schemaVars>>

\* main.go:70-73 phase.Wait() returns (and cancels the phase's context): exit 1
\* on an error, else the next phase, else main returns.
PhaseWait ==
    /\ pc = "PhaseWait"
    /\ WaitReturns(phase)
    /\ ctxDone' = [ctxDone EXCEPT ![phase] = TRUE]
    /\ IF PhaseFailed
       THEN Exit(1) /\ UNCHANGED phase
       ELSE IF phase < NumPhases
            THEN pc' = "PhaseStart" /\ phase' = phase + 1 /\ UNCHANGED exitCode
            ELSE Exit(0) /\ UNCHANGED phase
    /\ UNCHANGED <<run, dsn, apiKey, goIdx, status, groupErr, execCtx, seenCtx,
                   sentinel, gamesRun, idsReadRun, schemaVars>>

\* A task's goroutine begins executing the Seed function, which reads s.ctx.
TaskBegin(t) ==
    /\ pc \in {"PhaseGo", "PhaseWait"}
    /\ status[t] = "spawned"
    /\ status' = [status EXCEPT ![t] = "running"]
    /\ seenCtx' = [seenCtx EXCEPT ![t] = execCtx]
    /\ UNCHANGED <<pc, run, dsn, apiKey, exitCode, phase, goIdx, groupErr, ctxDone,
                   execCtx, sentinel, gamesRun, idsReadRun, schemaVars>>

\* The tasks whose store access main's ordering is about.
MidTasks == FanOutTasks \cup ({"SeedGames"} \cap Tasks)

\* seeder.go:291 SeedGames' InsertGames has returned nil;
\* seeder.go:562,637 a fan-out task's GetGameIDs has returned the ids.
TaskMid(t) ==
    /\ pc \in {"PhaseGo", "PhaseWait"}
    /\ t \in MidTasks
    /\ status[t] = "running"
    /\ status' = [status EXCEPT ![t] = "mid"]
    /\ IF t = "SeedGames"
       THEN gamesRun' = run /\ UNCHANGED idsReadRun
       ELSE idsReadRun' = [idsReadRun EXCEPT ![t] = gamesRun] /\ UNCHANGED gamesRun
    /\ UNCHANGED <<pc, run, dsn, apiKey, exitCode, phase, goIdx, groupErr, ctxDone,
                   execCtx, seenCtx, sentinel, schemaVars>>

\* An errgroup that keeps the error of the task that failed last.
LastError(cur, t) == t

\* errgroup.Group.Go: errOnce.Do keeps the error of the first function that
\* returned one (and cancels the group's context).
GroupError(cur, t) == IF cur = "nil" THEN t ELSE cur

\* The Seed function returns: nil, or an error (of its throttle, a fetch or a
\* write). errgroup keeps the first error and cancels the phase's context.
TaskReturn(t) ==
    /\ pc \in {"PhaseGo", "PhaseWait"}
    /\ status[t] \in {"running", "mid"}
    /\ \E err \in BOOLEAN :
          /\ ~err => status[t] = (IF t \in MidTasks THEN "mid" ELSE "running")
          /\ status' = [status EXCEPT ![t] = IF err THEN "err" ELSE "ok"]
          /\ IF err
             THEN /\ groupErr' = GroupError(groupErr, t)
                  /\ ctxDone' = [ctxDone EXCEPT ![phase] = TRUE]
             ELSE UNCHANGED <<groupErr, ctxDone>>
    /\ UNCHANGED <<pc, run, dsn, apiKey, exitCode, phase, goIdx, execCtx, seenCtx,
                   sentinel, gamesRun, idsReadRun, schemaVars>>

\* The process is killed from outside (an interruption).
Kill ==
    /\ pc \notin {"exited", "killed"}
    /\ pc' = "killed"
    /\ UNCHANGED <<procIdle, exitCode, sentinel, schemaVars>>

\* The process is started again against the same store.
Restart ==
    /\ pc \in {"exited", "killed"}
    /\ run < MaxRuns
    /\ run' = run + 1
    /\ pc' = "NewDatabase"
    /\ dsn' \in DSNs
    /\ apiKey' \in APIKeys
    /\ exitCode' = 0
    /\ phase' = 0
    /\ goIdx' = 0
    /\ status' = [t \in Tasks |-> "idle"]
    /\ groupErr' = "nil"
    /\ ctxDone' = [k \in 1..NumPhases |-> FALSE]
    /\ execCtx' = 0
    /\ seenCtx' = [t \in Tasks |-> 0]
    /\ sentinel' = "none"
    /\ idsReadRun' = [t \in FanOutTasks |-> -1]
    /\ migPos' = <<0, 1>>
    /\ UNCHANGED <<gamesRun, schema, tables, constraints>>

InitProcess ==
    /\ pc = "NewDatabase"
    /\ run = 1
    /\ dsn \in DSNs
    /\ apiKey \in APIKeys
    /\ exitCode = 0
    /\ phase = 0
    /\ goIdx = 0
    /\ status = [t \in Tasks |-> "idle"]
    /\ groupErr = "nil"
    /\ ctxDone = [k \in 1..NumPhases |-> FALSE]
    /\ execCtx = 0
    /\ seenCtx = [t \in Tasks |-> 0]
    /\ sentinel = "none"
    /\ gamesRun = 0
    /\ idsReadRun = [t \in FanOutTasks |-> -1]
    /\ schema = FALSE
    /\ tables = {}
    /\ constraints = {}
    /\ migPos = <<0, 1>>


WriterIdle ==
    /\ writer = "PlayTypes"
    /\ wpc = "idle"
    /\ wBatch = <<>>
    /\ wErr = "nil"
    /\ rows = <<>>
    /\ wPrev = <<>>

\* the games a year can have, at most: two and a half flush thresholds
MaxGames == (5 * FlushThreshold) \div 2

Games == 1..MaxGames

TaskIdle ==
    /\ fTask = "SeedPlays"
    /\ fpc = "done"
    /\ fYear = 1
    /\ fGames = 0
    /\ fNext = 1
    /\ wk = [g \in Games |-> "none"]
    /\ wParams = [g \in Games |-> {}]
    /\ got = [g \in Games |-> "none"]
    /\ fBatch = {}
    /\ fGroupErr = "nil"
    /\ sCtxDone = FALSE
    /\ fErr = "nil"
    /\ fRows = {}
    /\ flushes = EmptyBag
    /\ injected = EmptyBag
    /\ held = {}
    /\ unthrottled = FALSE

TicksPerSecond == Rate * TicksPerToken

\* the full bucket, in ticks' worth of tokens
Capacity == Burst * TicksPerToken

\* where the counters of acquisitions and of ticks stop
MaxGranted == Burst + MaxExtraCalls
MaxElapsed == (MaxExtraCalls + 1) * TicksPerToken

LimiterIdle ==
    /\ tokens = Capacity
    /\ waits = {}
    /\ ppc = "absent"
    /\ pWait = 0
    /\ pLast = "none"
    /\ granted = 0
    /\ elapsed = 0
    /\ rejected = FALSE
    /\ cancels = 0

\* the two sibling tasks that share a table
Siblings == {"SeedWepaPassing", "SeedWepaRushing"}

SiblingsIdle ==
    /\ sibPc = [t \in Siblings |-> "retNil"]
    /\ sibYear = [t \in Siblings |-> 1]
    /\ sibGot = [t \in Siblings |-> [y \in 1..NumYears |-> <<>>]]
    /\ epa = <<>>

BatchIdle ==
    /\ bPc = "done"
    /\ bGames = 0
    /\ bNext = 0
    /\ bFetching = 0
    /\ bLen = 0
    /\ bParams = EmptyBag
    /\ bWritten = 0

YearlyIdle ==
    /\ yTask = "SeedCalendar"
    /\ yPc = "done"
    /\ yYear = 1
    /\ yGot = [y \in 1..NumYears |-> -1]
    /\ yAll = {}
    /\ yRows = {}
    /\ yWrites = 0
    /\ yErr = "nil"

InitMain ==
    /\ InitProcess
    /\ WriterIdle
    /\ TaskIdle
    /\ LimiterIdle
    /\ SiblingsIdle
    /\ BatchIdle
    /\ YearlyIdle

NextMain ==
    \/ NewDatabase /\ UNCHANGED exceptMain
    \/ CheckInitialized /\ UNCHANGED exceptMain
    \/ CreateSchema /\ UNCHANGED exceptMain
    \/ MigrateTable /\ UNCHANGED exceptMain
    \/ InitializeReturns /\ UNCHANGED exceptMain
    \/ NewClient /\ UNCHANGED exceptMain
    \/ NewSeeder /\ UNCHANGED exceptMain
    \/ PhaseStart /\ UNCHANGED exceptMain
    \/ PhaseGo /\ UNCHANGED exceptMain
    \/ PhaseAllGone /\ UNCHANGED exceptMain
    \/ PhaseWait /\ UNCHANGED exceptMain
    \/ (\E t \in Tasks : TaskBegin(t)) /\ UNCHANGED exceptMain
    \/ (\E t \in Tasks : TaskMid(t)) /\ UNCHANGED exceptMain
    \/ (\E t \in Tasks : TaskReturn(t)) /\ UNCHANGED exceptMain
    \/ Kill /\ UNCHANGED exceptMain
    \/ Restart /\ UNCHANGED exceptMain

SpecMain == InitMain /\ [][NextMain]_vars

(***************************************************************************)
(* Claims about main (checked under SpecMain).                             *)
(***************************************************************************)
\* C1: phase barrier. A task of a phase has been handed to Go only if every
\* task of every earlier phase has returned without error (so tasks of
\* different phases never run at the same time); and the game IDs a fan-out
\* task of phase 4 has read are those of a games table that SeedGames of this
\* run has finished writing, SeedGames having returned nil.
PhaseBarrier ==
    /\ \A t \in Tasks : status[t] # "idle" =>
          \A u \in Tasks : PhaseOf(u) < PhaseOf(t) => status[u] = "ok"
    /\ \A t \in FanOutTasks : idsReadRun[t] # -1 =>
          /\ idsReadRun[t] = run
          /\ status["SeedGames"] = "ok"

\* A fan-out task of phase 4 has read the game IDs.
PhaseBarrierWitness ==
    \E t \in FanOutTasks : status[t] = "mid" /\ idsReadRun[t] = run

\* C2: once a task of a phase has returned an error, no task of a later phase
\* is ever started and an exit is with a nonzero code; the process exits with
\* code 0 only when every task of every phase has returned nil.
FailFast ==
    /\ \A t \in Tasks : status[t] = "err" =>
          /\ \A u \in Tasks : PhaseOf(u) > PhaseOf(t) => status[u] = "idle"
          /\ pc = "exited" => exitCode # 0
    /\ (pc = "exited" /\ exitCode = 0) => \A t \in Tasks : status[t] = "ok"

\* The process has exited with code 1 after a task of phase 3 failed while its
\* sibling returned nil.
FailFastWitness ==
    /\ pc = "exited"
    /\ exitCode = 1
    /\ \E t, u \in PhaseTasks(3) : status[t] = "err" /\ status[u] = "ok"

TablesOfSteps(k) ==
    UNION {{MigrationSteps[s][i] : i \in 1..Len(MigrationSteps[s])} : s \in 1..k}

\* C26: a setup that stopped early is detected: the store has the last
\* sentinel table only when it has every table, and has tables only with the
\* schema; whenever IsInitialized returns a value, it is true exactly when the
\* schema and every required sentinel table exist, it is false for a store
\* that holds no more than the tables of a proper prefix of the AutoMigrate
\* calls, and Initialize is run exactly when it is false; the sentinel tables
\* reach into the last AutoMigrate call.
PartialSetupDetected ==
    /\ []("int32_lists" \in tables => tables = AllTables)
    /\ [](tables # {} => schema)
    /\ [](RequiredTables \cap LastStepTables # {} /\ RequiredTables \subseteq AllTables)
    /\ [][(pc = "IsInitialized" /\ pc' \in {"NewClient", "Initialize"}) =>
            /\ sentinel' = "true" <=> (schema /\ RequiredTables \subseteq tables)
            /\ \A k \in 0..(Len(MigrationSteps) - 1) :
                  tables \subseteq TablesOfSteps(k) => sentinel' = "false"
            /\ pc' = "Initialize" <=> sentinel' = "false"]_vars

\* In a second run IsInitialized has returned false for a store on which the
\* first run's Initialize stopped just before its last AutoMigrate call.
PartialSetupDetectedWitness ==
    /\ run = 2
    /\ sentinel = "false"
    /\ pc = "Initialize"
    /\ migPos = <<0, 1>>
    /\ schema
    /\ tables = TablesOfSteps(Len(MigrationSteps) - 1)

(***************************************************************************)
(* Claims about errors in main (checked under SpecMain).                   *)
(***************************************************************************)
\* C11: when a task of the current phase returns an error, the phase's
\* context is cancelled in the same step and the group keeps the error of the
\* first task that failed (an error of a task that fails later changes
\* nothing); Wait returns only when every task of the phase has returned, and
\* main then exits with code 1 exactly when the group holds an error.
FirstErrorKept ==
    [][/\ \A t \in Tasks :
             (pc' # "NewDatabase" /\ status[t] # "err" /\ status'[t] = "err") =>
                 /\ PhaseOf(t) = phase
                 /\ ctxDone'[phase]
                 /\ groupErr' = (IF groupErr = "nil" THEN t ELSE groupErr)
                 /\ groupErr' \in PhaseTasks(phase)
                 /\ status'[groupErr'] = "err"
       /\ (pc = "PhaseWait" /\ pc' \in {"PhaseStart", "exited"}) =>
             /\ \A t \in PhaseTasks(phase) : status[t] \in {"ok", "err"}
             /\ (pc' = "exited" /\ exitCode' = 1) <=> (groupErr # "nil")
             /\ (groupErr = "nil") <=> (\A t \in PhaseTasks(phase) : status[t] = "ok")]_vars

\* Wait of phase 3 has returned the error of the first of two failed tasks.
FirstErrorKeptWitness ==
    /\ pc = "exited"
    /\ phase = 3
    /\ \E t, u \in PhaseTasks(3) :
          t # u /\ status[t] = "err" /\ status[u] = "err" /\ groupErr = u

\* a string of spaces only (the empty string included)
Blank(s) == \A i \in 1..Len(s) : s[i] = " "

Unreturned == {t \in Tasks : status[t] \in {"spawned", "running", "mid"}}

\* C28: the seeder's context is set before a Seed function runs and is not
\* written while one can run: while a task is handed to its group and has
\* not returned, s.ctx is the context of the task's phase, and that is what
\* the task read when it began; s.ctx is written only when no task of the
\* process is unreturned, and a phase sets it to its own context, which is
\* not cancelled at that moment.
ContextPerPhase ==
    /\ [](\A t \in Unreturned : execCtx = PhaseOf(t) /\ execCtx # 0)
    /\ [](\A t \in Tasks :
            status[t] \in {"running", "mid", "ok", "err"} => seenCtx[t] = PhaseOf(t))
    /\ [][execCtx' # execCtx =>
            \/ pc \in {"exited", "killed"}
            \/ /\ Unreturned = {}
               /\ pc = "PhaseStart"
               /\ execCtx' = phase
               /\ ~ctxDone[phase]]_vars

\* A task of phase 2 runs with phase 2's context after phase 1's context has
\* been cancelled.
ContextPerPhaseWitness ==
    /\ phase = 2
    /\ ctxDone[1]
    /\ ~ctxDone[2]
    /\ \E t \in PhaseTasks(2) : status[t] = "running" /\ seenCtx[t] = 2

(***************************************************************************)
(* The upsert writers of Database and a reference-data Seed task.          *)
(***************************************************************************)
\* how many records a fetch returns at most
MaxBatchLen == 2
\* how many rows the append-only play_stats table may hold in the model
MaxRows == 4
\* CreateInBatches(models, 500)
InsertBatchSize == 500
\* CreateInBatches(models, 100) in InsertKickerPAAR
KickerBatchSize == 100
\* the writers that are modelled
Writers == {"PlayTypes", "PlayStatTypes", "PlayStats", "Plays", "KickerPAAR"}

SeqsUpTo(S, n) == UNION {[1..k -> S] : k \in 0..n}

Range(f) == {f[x] : x \in DOMAIN f}

\* Upstream values: ids (0 is the proto default of a missing id) and strings,
\* some with surrounding white space, some blank.
Ids == {0, 1, 2, 3}
Texts == {<<"a">>, <<" ", "b">>}
\* text and abbreviation of a play type, as the upstream may give them
TextAbbrs == {<<<<"a">>, <<>>>>, <<<<"a">>, <<"b", " ">>>>, <<<<" ", "b">>, <<"b", " ">>>>}
Names == {<<>>, <<" ">>, <<"a">>, <<" ", "a">>, <<"b">>}

\* []*cfbd.PlayType: nil pointers and records
PlayTypeRecs ==
    [isNil : {TRUE}, id : {0}, text : {<<>>}, abbreviation : {<<>>}]
    \cup {[isNil |-> FALSE, id |-> i, text |-> c[1], abbreviation |-> c[2]] :
             i \in Ids, c \in TextAbbrs}

\* []*cfbd.PlayStat: nil pointers and records (of their columns, the play id)
PlayStatRecs ==
    [isNil : {TRUE}, playId : {<<>>}] \cup [isNil : {FALSE}, playId : Texts]

\* []*cfbd.Play: nil pointers and records (of their columns, the id, which
\* may be missing, and the drive id)
PlayRecs ==
    [isNil : {TRUE}, id : {<<>>}, driveId : {<<>>}]
    \cup [isNil : {FALSE}, id : {<<>>, <<"a">>, <<"b">>}, driveId : {<<"d">>, <<" ", "d">>}]

\* []*cfbd.KickerPAAR: nil pointers and records (of their columns, the year,
\* the athlete id, which may be missing, and the metric)
KickerRecs ==
    [isNil : {TRUE}, year : {0}, athleteId : {<<>>}, paar : {0}]
    \cup [isNil : {FALSE}, year : {2024}, athleteId : {<<>>, <<"a">>, <<"b">>},
          paar : {1, 2}]

\* What a fetch of the task can return.
Batches(w) ==
    CASE w = "PlayTypes" -> SeqsUpTo(PlayTypeRecs, MaxBatchLen)
      [] w = "PlayStatTypes" -> SeqsUpTo(Names, MaxBatchLen)
      [] w = "PlayStats" -> SeqsUpTo(PlayStatRecs, MaxBatchLen)
      [] w = "Plays" -> SeqsUpTo(PlayRecs, MaxBatchLen)
      [] w = "KickerPAAR" -> SeqsUpTo(KickerRecs, MaxBatchLen)

\* The empty table of a writer.
EmptyTable == <<>>

\* db.go:557-570 the models of InsertPlayTypes: nil and id 0 are skipped,
\* the strings are trimmed.
PlayTypeKept(r) == ~r.isNil /\ r.id # 0

PlayTypeModels(batch) ==
    LET kept == SelectSeq(batch, PlayTypeKept)
    IN [i \in 1..Len(kept) |->
           [id |-> kept[i].id,
            cols |-> <<TrimSpace(kept[i].text), TrimSpace(kept[i].abbreviation)>>]]

\* A conflict clause that keeps the existing row (DoNothing).
OnConflictKeep(old, new) == old

\* db.go:577-583 OnConflict{Columns: id, DoUpdates: AssignmentColumns(text,
\* abbreviation)}: the existing row takes the incoming columns.
OnConflictUpdate(old, new) == new

\* One INSERT ... ON CONFLICT (id) DO UPDATE statement, row by row.
RECURSIVE UpsertRows(_, _)
UpsertRows(tbl, models) ==
    IF models = <<>> THEN tbl
    ELSE LET m == Head(models)
             row == IF m.id \in DOMAIN tbl THEN OnConflictUpdate(tbl[m.id], m.cols)
                    ELSE m.cols
         IN UpsertRows([k \in DOMAIN tbl \cup {m.id} |-> IF k = m.id THEN row ELSE tbl[k]],
                       Tail(models))

\* CreateInBatches(models, size): the statements it issues.
RECURSIVE Chunks(_, _)
Chunks(models, size) ==
    IF Len(models) <= size THEN <<models>>
    ELSE <<SubSeq(models, 1, size)>> \o Chunks(SubSeq(models, size + 1, Len(models)), size)

\* The store rejects an ON CONFLICT DO UPDATE statement that proposes the
\* same key twice (it may not affect a row a second time).
RepeatsKey(stmt) == \E i, j \in 1..Len(stmt) : i < j /\ stmt[i].id = stmt[j].id

\* db.go:548-590 InsertPlayTypes: what it returns and the table it leaves.
\* CreateInBatches runs its statements in one transaction.
InsertPlayTypes(tbl, batch, fault) ==
    IF Len(batch) = 0 THEN [err |-> "nil", rows |-> tbl]
    ELSE LET models == PlayTypeModels(batch)
             stmts == Chunks(models, InsertBatchSize)
         IN IF Len(models) = 0 THEN [err |-> "nil", rows |-> tbl]
            ELSE IF fault THEN [err |-> "fault", rows |-> tbl]
            ELSE IF \E k \in 1..Len(stmts) : RepeatsKey(stmts[k])
                 THEN [err |-> "conflict", rows |-> tbl]
            ELSE [err |-> "nil", rows |-> UpsertRows(tbl, models)]

\* db.go:598-610 normalize + dedupe: trimmed, blanks dropped, first
\* occurrence of each name kept.
RECURSIVE CleanNames(_, _)
CleanNames(names, seen) ==
    IF names = <<>> THEN <<>>
    ELSE LET n == TrimSpace(Head(names))
         IN IF n = <<>> \/ n \in seen THEN CleanNames(Tail(names), seen)
            ELSE <<n>> \o CleanNames(Tail(names), seen \cup {n})

\* A writer of the stat types with a conflict clause: an existing id takes
\* the incoming name.
UpsertPlayStatTypes(tbl, names, fault) ==
    LET clean == CleanNames(names, {})
        ids == 1..Len(clean)
    IN IF Len(clean) = 0 THEN [err |-> "nil", rows |-> tbl]
       ELSE IF fault THEN [err |-> "fault", rows |-> tbl]
       ELSE [err |-> "nil",
             rows |-> [k \in DOMAIN tbl \cup ids |-> IF k \in ids THEN clean[k] ELSE tbl[k]]]

\* db.go:593-633 InsertPlayStatTypes: the ids 1..N, a plain INSERT, which the
\* primary key rejects when one of the ids exists.
InsertPlayStatTypes(tbl, names, fault) ==
    LET clean == CleanNames(names, {})
        ids == 1..Len(clean)
    IN IF Len(clean) = 0 THEN [err |-> "nil", rows |-> tbl]
       ELSE IF fault THEN [err |-> "fault", rows |-> tbl]
       ELSE IF ids \cap DOMAIN tbl # {} THEN [err |-> "conflict", rows |-> tbl]
       ELSE [err |-> "nil",
             rows |-> [k \in DOMAIN tbl \cup ids |-> IF k \in ids THEN clean[k] ELSE tbl[k]]]

\* db.go:1421-1467 the models of InsertPlayStats: nil is skipped, ID is 0
\* (generated by the store), the strings are trimmed.
PlayStatKept(r) == ~r.isNil

PlayStatModels(batch) ==
    LET kept == SelectSeq(batch, PlayStatKept)
    IN [i \in 1..Len(kept) |-> TrimSpace(kept[i].playId)]

\* db.go:1413-1483 InsertPlayStats: ON CONFLICT DO NOTHING on a table whose only
\* key is the generated id: every model becomes a new row.
InsertPlayStats(tbl, batch, fault) ==
    IF Len(batch) = 0 THEN [err |-> "nil", rows |-> tbl]
    ELSE LET models == PlayStatModels(batch)
         IN IF Len(models) = 0 THEN [err |-> "nil", rows |-> tbl]
            ELSE IF fault THEN [err |-> "fault", rows |-> tbl]
            ELSE [err |-> "nil", rows |-> tbl \o models]

\* db.go:1130-1139 the records InsertPlays keeps: nil and an empty id are
\* skipped
PlayKept(r) == ~r.isNil /\ r.id # <<>>

\* db.go:1129-1213 the models of InsertPlays: the id as it came, the strings
\* trimmed
PlayModels(batch) ==
    LET kept == SelectSeq(batch, PlayKept)
    IN [i \in 1..Len(kept) |->
           [id |-> kept[i].id, cols |-> <<TrimSpace(kept[i].driveId)>>]]

\* db.go:1121-1262 InsertPlays: upsert on id in statements of 500 rows
InsertPlays(tbl, batch, fault) ==
    IF Len(batch) = 0 THEN [err |-> "nil", rows |-> tbl]
    ELSE LET models == PlayModels(batch)
             stmts == Chunks(models, InsertBatchSize)
         IN IF Len(models) = 0 THEN [err |-> "nil", rows |-> tbl]
            ELSE IF fault THEN [err |-> "fault", rows |-> tbl]
            ELSE IF \E k \in 1..Len(stmts) : RepeatsKey(stmts[k])
                 THEN [err |-> "conflict", rows |-> tbl]
            ELSE [err |-> "nil", rows |-> UpsertRows(tbl, models)]

\* A CreateInBatches that reaches the store even for no rows.
AlwaysStatements(models) == FALSE

\* CreateInBatches over an empty slice: its loop runs no iteration, no
\* statement is issued
NoStatements(models) == Len(models) = 0

\* db.go:2088-2090 Clauses(OnConflict{UpdateAll: true}).CreateInBatches(models,
\* 100): what it returns and the table it leaves
CreateInBatches(tbl, models, size, fault) ==
    IF NoStatements(models) THEN [err |-> "nil", rows |-> tbl]
    ELSE IF fault THEN [err |-> "fault", rows |-> tbl]
    ELSE LET stmts == Chunks(models, size)
         IN IF \E k \in 1..Len(stmts) : RepeatsKey(stmts[k])
            THEN [err |-> "conflict", rows |-> tbl]
            ELSE [err |-> "nil", rows |-> UpsertRows(tbl, models)]

\* A transform that also skips the records without athlete id.
KickerKeptWithKey(r) == ~r.isNil /\ r.athleteId # <<>>

\* db.go:2073-2075 the records InsertKickerPAAR keeps: nil is skipped
KickerKept(r) == ~r.isNil

\* db.go:2071-2085 the models of InsertKickerPAAR, keyed by (year, athlete_id)
KickerModels(batch) ==
    LET kept == SelectSeq(batch, KickerKept)
    IN [i \in 1..Len(kept) |->
           [id |-> <<kept[i].year, kept[i].athleteId>>, cols |-> <<kept[i].paar>>]]

\* db.go:2063-2091 InsertKickerPAAR
InsertKickerPAAR(tbl, batch, fault) ==
    IF Len(batch) = 0 THEN [err |-> "nil", rows |-> tbl]
    ELSE CreateInBatches(tbl, KickerModels(batch), KickerBatchSize, fault)

Insert(w, tbl, batch, fault) ==
    CASE w = "PlayTypes" -> InsertPlayTypes(tbl, batch, fault)
      [] w = "PlayStatTypes" -> InsertPlayStatTypes(tbl, batch, fault)
      [] w = "PlayStats" -> InsertPlayStats(tbl, batch, fault)
      [] w = "Plays" -> InsertPlays(tbl, batch, fault)
      [] w = "KickerPAAR" -> InsertKickerPAAR(tbl, batch, fault)

\* seeder.go:382, 1347 the tasks that call their writer only `if len(x) > 0`
Guarded(w) == w \in {"Plays", "KickerPAAR"}

\* The table has room for one more call (the model's cap on play_stats).
HasRoom(w, tbl) == w = "PlayStats" => Len(tbl) + MaxBatchLen <= MaxRows

\* seeder.go:78 the task's fetch returns records ...
Fetch ==
    /\ wpc = "idle"
    /\ HasRoom(writer, rows)
    /\ wBatch' \in Batches(writer)
    /\ wpc' = "fetched"
    /\ wErr' = "nil"
    /\ UNCHANGED <<writer, rows, wPrev>>

\* seeder.go:79-82 ... or an error, and the task returns it
FetchFails ==
    /\ wpc = "idle"
    /\ wpc' = "failed"
    /\ wErr' = "fetch"
    /\ wBatch' = <<>>
    /\ UNCHANGED <<writer, rows, wPrev>>

\* seeder.go:84 the task calls its writer with what it fetched
CallInsert ==
    /\ wpc \in {"fetched", "refetched"}
    /\ \E fault \in BOOLEAN :
          LET res == IF Guarded(writer) /\ Len(wBatch) = 0
                     THEN [err |-> "nil", rows |-> rows]
                     ELSE Insert(writer, rows, wBatch, fault)
          IN /\ rows' = res.rows
             /\ wErr' = res.err
    /\ wPrev' = rows
    /\ wpc' = IF wpc = "fetched" THEN "inserted" ELSE "reinserted"
    /\ UNCHANGED <<writer, wBatch>>

\* The task is run again and the upstream returns what it returned before.
Reseed ==
    /\ wpc = "inserted"
    /\ wErr = "nil"
    /\ HasRoom(writer, rows)
    /\ wpc' = "refetched"
    /\ UNCHANGED <<writer, wBatch, wErr, rows, wPrev>>

\* seeder.go:85-90 the task returns
TaskDone ==
    /\ wpc \in {"inserted", "reinserted", "failed"}
    /\ wpc' = "idle"
    /\ wBatch' = <<>>
    /\ wErr' = "nil"
    /\ wPrev' = <<>>
    /\ UNCHANGED <<writer, rows>>

ProcessIdle ==
    /\ pc = "exited"
    /\ run = 1
    /\ dsn = <<>>
    /\ apiKey = <<>>
    /\ exitCode = 0
    /\ phase = 0
    /\ goIdx = 0
    /\ status = [t \in Tasks |-> "idle"]
    /\ groupErr = "nil"
    /\ ctxDone = [k \in 1..NumPhases |-> FALSE]
    /\ execCtx = 0
    /\ seenCtx = [t \in Tasks |-> 0]
    /\ sentinel = "none"
    /\ gamesRun = 0
    /\ idsReadRun = [t \in FanOutTasks |-> -1]
    /\ schema = TRUE
    /\ tables = AllTables
    /\ constraints = {}
    /\ migPos = <<0, 1>>

InitWriter ==
    /\ ProcessIdle
    /\ SiblingsIdle
    /\ BatchIdle
    /\ YearlyIdle
    /\ TaskIdle
    /\ LimiterIdle
    /\ writer \in Writers
    /\ wpc = "idle"
    /\ wBatch = <<>>
    /\ wErr = "nil"
    /\ rows = EmptyTable
    /\ wPrev = <<>>

NextWriter ==
    \/ Fetch /\ UNCHANGED exceptWriter
    \/ FetchFails /\ UNCHANGED exceptWriter
    \/ CallInsert /\ UNCHANGED exceptWriter
    \/ Reseed /\ UNCHANGED exceptWriter
    \/ TaskDone /\ UNCHANGED exceptWriter

SpecWriter == InitWriter /\ [][NextWriter]_vars

\* C3: a task run twice against an unchanged upstream succeeds both times and
\* the second run leaves the table as the first run left it (a store fault
\* aside): for every writer, the same batch applied twice equals once.
IdempotentReseed ==
    (wpc = "reinserted" /\ wErr # "fault") => (wErr = "nil" /\ rows = wPrev)

\* The records of the batch that InsertPlayTypes is asked to write, as the
\* upstream gave them.
BatchIds == {wBatch[i].id : i \in {j \in 1..Len(wBatch) : ~wBatch[j].isNil}}

Written == {i \in 1..Len(wBatch) : ~wBatch[i].isNil /\ wBatch[i].id # 0}

WrittenIds == {wBatch[i].id : i \in Written}

DroppedEntries ==
    {i \in 1..Len(wBatch) :
        CASE writer = "PlayTypes" -> wBatch[i].isNil \/ wBatch[i].id = 0
          [] writer = "PlayStatTypes" -> \A j \in 1..Len(wBatch[i]) : wBatch[i][j] = " "
          [] writer = "PlayStats" -> wBatch[i].isNil
          [] writer = "Plays" -> wBatch[i].isNil \/ wBatch[i].id = <<>>
          [] writer = "KickerPAAR" -> wBatch[i].isNil}

\* C17: when the fetch gave no record, or only records that the transform
\* leaves out, the writer call of the task returns nil and the table is as it
\* was, whether or not the store can be reached: no statement is issued.
EmptyIsNoOp ==
    (wpc \in {"inserted", "reinserted"} /\ DroppedEntries = 1..Len(wBatch)) =>
        /\ wErr = "nil"
        /\ rows = wPrev

\* InsertKickerPAAR has been called on a table with rows with a batch of two
\* nil entries.
EmptyIsNoOpWitness ==
    /\ writer = "KickerPAAR"
    /\ wpc = "inserted"
    /\ Len(wBatch) = 2
    /\ DroppedEntries = {1, 2}
    /\ DOMAIN rows # {}

\* the writers whose table is keyed by an upstream id
KeyedWriters == {"PlayTypes", "Plays", "KickerPAAR"}

\* the entries of the batch that are records
Present == {i \in 1..Len(wBatch) : ~wBatch[i].isNil}

\* the natural key of a record of the batch
KeyOf(i) ==
    IF writer = "KickerPAAR" THEN <<wBatch[i].year, wBatch[i].athleteId>>
    ELSE wBatch[i].id

\* the records of the batch that have their natural key
WellFormed ==
    {i \in Present :
        CASE writer = "PlayTypes" -> wBatch[i].id # 0
          [] writer = "Plays" -> wBatch[i].id # <<>>
          [] writer = "KickerPAAR" -> wBatch[i].athleteId # <<>>}

KeptEntries == (1..Len(wBatch)) \ DroppedEntries

KeptNames ==
    {i \in 1..Len(wBatch) :
        /\ TrimSpace(wBatch[i]) # <<>>
        /\ \A j \in 1..(i - 1) : TrimSpace(wBatch[j]) # TrimSpace(wBatch[i])}

\* the id of a kept name: its rank among the kept names
IdOfName(i) == Cardinality({j \in KeptNames : j <= i})

\* the ids the call assigns
AssignedIds == 1..Cardinality(KeptNames)

\* C27: InsertPlayStatTypes trims the names, drops the empty ones, keeps the
\* first occurrence of each and numbers them 1..N in that order; with N = 0
\* it writes nothing and returns nil; when a row with one of the ids 1..N
\* exists the call returns an error and the table stays as it was; else,
\* unless the store fails, the table gains exactly the rows id -> name; and
\* the task returns the writer's error.
StatTypesPlainInsert ==
    (writer = "PlayStatTypes" /\ wpc \in {"inserted", "reinserted"}) =>
        /\ KeptNames = {} => (wErr = "nil" /\ rows = wPrev)
        /\ (KeptNames # {} /\ AssignedIds \cap DOMAIN wPrev # {}) =>
              (wErr \in {"conflict", "fault"} /\ rows = wPrev)
        /\ wErr # "nil" => rows = wPrev
        /\ (KeptNames # {} /\ wErr = "nil") =>
              /\ AssignedIds \cap DOMAIN wPrev = {}
              /\ DOMAIN rows = DOMAIN wPrev \cup AssignedIds
              /\ \A k \in DOMAIN wPrev : rows[k] = wPrev[k]
              /\ \A i \in KeptNames : rows[IdOfName(i)] = TrimSpace(wBatch[i])

\* The stat types have been fetched again with two distinct names, and the
\* insert was rejected on the ids of the rows an earlier call wrote.
StatTypesPlainInsertWitness ==
    /\ writer = "PlayStatTypes"
    /\ wpc = "inserted"
    /\ wErr = "conflict"
    /\ wPrev # <<>>
    /\ rows = wPrev
    /\ Cardinality(KeptNames) = 2

(***************************************************************************)
(* A multi-request Seed task of the throttled seeder: SeedPlays, which     *)
(* fetches per year and per week, and the fan-out tasks, which fetch per   *)
(* game in a pool of workers.                                              *)
(***************************************************************************)
FanOutTaskNames == {"SeedWinProbability", "SeedAdvancedBoxScore"}

IsFanOut == fTask \in FanOutTaskNames

\* how many game IDs GetGameIDs may return for a year
GameCounts == {0, 1, MaxGames}

\* A pool whose context does not derive from the phase's context.
PoolCancelled == fGroupErr # "nil"

\* a worker that looks at the phase's context only, not at its pool's
PhaseCancelled == sCtxDone

\* errgroup.WithContext(s.ctx): the pool's context is done once the phase's
\* context is, or once a worker has returned an error.
Cancelled == sCtxDone \/ fGroupErr # "nil"

\* the environment may still produce a failure
MayInject == BagCardinality(injected) < MaxInjected

\* the environment produces a failure of a kind
Inject(kind) == injected (+) SetToBag({kind})

\* a worker whose function holds the error of a call and has not yet
\* returned it to the pool
Failing == {"errThrottle", "errFetch", "errWrite"}

\* the error that a failing worker holds
ErrOf(st) ==
    CASE st = "errThrottle" -> "throttle"
      [] st = "errFetch" -> "fetch"
      [] OTHER -> "write"

\* the workers of the pool that have not returned
Active == {g \in Games : wk[g] \in {"throttle", "fetch", "write"} \cup Failing}

\* A pool that drops the errors of its workers.
NoError(e) == "nil"

\* errgroup: the first error is kept
FirstError(e) == IF fGroupErr = "nil" THEN e ELSE fGroupErr

\* a task that, when a write fails, deletes what it wrote for the year
FailedWriteUndoesYear(r) == {x \in r : x[1] # fYear}

\* seeder.go:384-388, 620, 673, 684-688 a failed writer call is returned as
\* an error: the rows written before stay, no delete or compensating write
\* is issued
FailedWriteLeaves(r) == r

\* the loop head of a year
YearLoopHead == IF IsFanOut THEN "getIDs" ELSE "yearThrottle"

\* seeder.go:359-362 an iteration of the week loop skips the throttle
WeekLoopHeadFetch == "plays"

\* seeder.go:359-362 an iteration of the week loop starts with the throttle
WeekLoopHead == "weekThrottle"

\* InsertAdvancedBoxScores skips nil values: the keys that become rows
RecordsOf(keys) == {k \in keys : got[k] = "record"}

\* a request is issued by who (0: the task itself, g: the worker of game g)
Request(who) ==
    /\ held' = held \ {who}
    /\ unthrottled' = (unthrottled \/ who \notin held)

\* seeder.go:562-565, 637-640 GetGameIDs(s.ctx, year)
GetGameIDs ==
    /\ IsFanOut
    /\ fpc = "getIDs"
    /\ \/ /\ sCtxDone \/ MayInject
          /\ injected' = IF sCtxDone THEN injected ELSE Inject("ids")
          /\ fErr' = "ids"
          /\ fpc' = "done"
          /\ UNCHANGED <<fGames, fNext, wk, wParams, got, fBatch, fGroupErr, flushes>>
       \/ /\ ~sCtxDone
          /\ fGames' \in GameCounts
          /\ fNext' = 1
          /\ wk' = [g \in Games |-> "none"]
          /\ wParams' = [g \in Games |-> {}]
          /\ got' = [g \in Games |-> "none"]
          /\ fBatch' = {}
          /\ fGroupErr' = "nil"
          /\ flushes' = EmptyBag
          /\ fpc' = "spawn"
          /\ UNCHANGED <<injected, fErr>>
    /\ UNCHANGED <<fTask, fYear, sCtxDone, fRows, held, unthrottled>>

\* a pool without SetLimit
PoolUnlimited == TRUE

\* seeder.go:597, 647 group.SetLimit(10): Go blocks until fewer workers than
\* the limit are active
PoolHasRoom == Cardinality(Active) < PoolLimit

\* seeder.go:599-601, 649-651 group.Go: blocks while the pool is full
Spawn ==
    /\ IsFanOut
    /\ fpc = "spawn"
    /\ fNext <= fGames
    /\ PoolHasRoom
    /\ wk' = [wk EXCEPT ![fNext] = "throttle"]
    /\ fNext' = fNext + 1
    /\ UNCHANGED <<fTask, fpc, fYear, fGames, wParams, got, fBatch, fGroupErr, sCtxDone,
                   fErr, fRows, flushes, injected, held, unthrottled>>

\* seeder.go:599, 649 the range over gameIDs ends
SpawnEnds ==
    /\ IsFanOut
    /\ fpc = "spawn"
    /\ fNext > fGames
    /\ fpc' = "wait"
    /\ UNCHANGED <<fTask, fYear, fGames, fNext, wk, wParams, got, fBatch, fGroupErr,
                   sCtxDone, fErr, fRows, flushes, injected, held, unthrottled>>

\* a worker whose throttle failed logs and returns nil
ThrottleErrorSwallowed == "retNil"

\* seeder.go:602-604, 652-654 a worker whose throttle failed returns the error
ThrottleErrorResult == "errThrottle"

\* seeder.go:602-604, 652-654 the worker's s.throttle(ctx)
WorkerThrottle(g) ==
    /\ wk[g] = "throttle"
    /\ \/ /\ Cancelled \/ MayInject
          /\ injected' = IF Cancelled THEN injected ELSE Inject("throttle")
          /\ wk' = [wk EXCEPT ![g] = ThrottleErrorResult]
          /\ UNCHANGED held
       \/ /\ ~Cancelled
          /\ wk' = [wk EXCEPT ![g] = "fetch"]
          /\ held' = held \cup {g}
          /\ UNCHANGED injected
    /\ UNCHANGED <<fTask, fpc, fYear, fGames, fNext, wParams, got, fBatch, fGroupErr,
                   sCtxDone, fErr, fRows, flushes, unthrottled>>

\* a flush only once the batch has grown beyond the threshold
ReachedThresholdLate(b) == Cardinality(b) > FlushThreshold

\* seeder.go:668 len(batch) >= 100
ReachedThreshold(b) == Cardinality(b) >= FlushThreshold

\* a worker whose fetch failed returns the error to the pool
FetchErrorPropagates == "errFetch"

\* seeder.go:608-616, 658-664 a worker whose fetch failed logs a warning and
\* returns nil
FetchErrorResult == "retNil"

\* seeder.go:666-676 mu.Lock ... mu.Unlock: the entry is added and, at the
\* threshold, the batch is taken over by the worker, who writes it after
\* the unlock
AddToBatch(g) ==
    LET b == fBatch \cup {g}
    IN IF ReachedThreshold(b)
       THEN /\ fBatch' = {}
            /\ wParams' = [wParams EXCEPT ![g] = b]
            /\ wk' = [wk EXCEPT ![g] = "write"]
       ELSE /\ fBatch' = b
            /\ wk' = [wk EXCEPT ![g] = "retNil"]
            /\ UNCHANGED wParams

\* seeder.go:605-618, 655-676 the worker's fetch and what it does with the
\* result: an error is logged and swallowed
WorkerFetch(g) ==
    /\ wk[g] = "fetch"
    /\ Request(g)
    /\ \/ /\ Cancelled \/ MayInject
          /\ injected' = IF Cancelled THEN injected ELSE Inject("fetch")
          /\ got' = [got EXCEPT ![g] = "err"]
          /\ wk' = [wk EXCEPT ![g] = FetchErrorResult]
          /\ UNCHANGED <<wParams, fBatch>>
       \/ /\ ~Cancelled
          /\ \E r \in {"record"} \cup (IF MayInject THEN {"empty"} ELSE {}) :
                /\ got' = [got EXCEPT ![g] = r]
                /\ injected' = IF r = "empty" THEN Inject("empty") ELSE injected
                /\ IF fTask = "SeedAdvancedBoxScore"
                   THEN AddToBatch(g)
                   ELSE /\ wk' = [wk EXCEPT ![g] = IF r = "empty" THEN "retNil" ELSE "write"]
                        /\ wParams' = [wParams EXCEPT ![g] = IF r = "empty" THEN {} ELSE {g}]
                        /\ UNCHANGED fBatch
    /\ UNCHANGED <<fTask, fpc, fYear, fGames, fNext, fGroupErr, sCtxDone, fErr, fRows,
                   flushes>>

\* seeder.go:620, 675 the worker's store write under the pool's context; a
\* map of nil values only issues no statement
WorkerWrite(g) ==
    /\ wk[g] = "write"
    /\ \/ /\ RecordsOf(wParams[g]) # {}
          /\ Cancelled \/ MayInject
          /\ injected' = IF Cancelled THEN injected ELSE Inject("write")
          /\ wk' = [wk EXCEPT ![g] = "errWrite"]
          /\ flushes' = flushes (+) SetToBag({[by |-> "worker", keys |-> wParams[g], ok |-> FALSE]})
          /\ fRows' = FailedWriteLeaves(fRows)
       \/ /\ RecordsOf(wParams[g]) = {} \/ ~Cancelled
          /\ wk' = [wk EXCEPT ![g] = "retNil"]
          /\ fRows' = fRows \cup {<<fYear, k>> : k \in RecordsOf(wParams[g])}
          /\ flushes' = flushes (+) SetToBag({[by |-> "worker", keys |-> wParams[g], ok |-> TRUE]})
          /\ UNCHANGED injected
    /\ wParams' = [wParams EXCEPT ![g] = {}]
    /\ UNCHANGED <<fTask, fpc, fYear, fGames, fNext, got, fBatch, fGroupErr, sCtxDone,
                   fErr, held, unthrottled>>

\* seeder.go:601-603, 620, 651-653, 673 the worker's function returns the
\* error; only then does the pool keep it, if it is the first, and cancel
\* its context
WorkerReturn(g) ==
    /\ wk[g] \in Failing
    /\ wk' = [wk EXCEPT ![g] = "retErr"]
    /\ fGroupErr' = FirstError(ErrOf(wk[g]))
    /\ UNCHANGED <<fTask, fpc, fYear, fGames, fNext, wParams, got, fBatch, sCtxDone,
                   fErr, fRows, flushes, injected, held, unthrottled>>

\* a Wait that returns while functions of the pool are still running
PoolWaitReturnsEarly == TRUE

\* seeder.go:623, 679 group.Wait blocks until every function handed to
\* group.Go has returned
PoolWaitReturns == Active = {}

\* seeder.go:626-628, 679-681 group.Wait: returns when every worker has, with
\* the first error
GroupWait ==
    /\ IsFanOut
    /\ fpc = "wait"
    /\ PoolWaitReturns
    /\ IF fGroupErr # "nil"
       THEN /\ fErr' = fGroupErr
            /\ fpc' = "done"
       ELSE /\ fpc' = IF fTask = "SeedAdvancedBoxScore" THEN "drain" ELSE "next"
            /\ UNCHANGED fErr
    /\ UNCHANGED <<fTask, fYear, fGames, fNext, wk, wParams, got, fBatch, fGroupErr,
                   sCtxDone, fRows, flushes, injected, held, unthrottled>>

\* seeder.go:683-689 the remainder is written under the phase's context
Drain ==
    /\ fTask = "SeedAdvancedBoxScore"
    /\ fpc = "drain"
    /\ \/ /\ fBatch = {}
          /\ fpc' = "next"
          /\ UNCHANGED <<fErr, fRows, flushes, injected>>
       \/ /\ RecordsOf(fBatch) # {}
          /\ sCtxDone \/ MayInject
          /\ injected' = IF sCtxDone THEN injected ELSE Inject("write")
          /\ fErr' = "write"
          /\ fpc' = "done"
          /\ flushes' = flushes (+) SetToBag({[by |-> "drain", keys |-> fBatch, ok |-> FALSE]})
          /\ fRows' = FailedWriteLeaves(fRows)
       \/ /\ fBatch # {}
          /\ RecordsOf(fBatch) = {} \/ ~sCtxDone
          /\ fRows' = fRows \cup {<<fYear, k>> : k \in RecordsOf(fBatch)}
          /\ flushes' = flushes (+) SetToBag({[by |-> "drain", keys |-> fBatch, ok |-> TRUE]})
          /\ fpc' = "next"
          /\ UNCHANGED <<fErr, injected>>
    /\ UNCHANGED <<fTask, fYear, fGames, fNext, wk, wParams, got, fBatch, fGroupErr,
                   sCtxDone, held, unthrottled>>

\* seeder.go:338, 559, 634 the range over supportedYears goes on, or the task
\* returns nil
NextYear ==
    /\ fpc = "next"
    /\ IF fYear < NumYears
       THEN /\ fYear' = fYear + 1
            /\ fpc' = YearLoopHead
       ELSE /\ fpc' = "done"
            /\ UNCHANGED fYear
    /\ UNCHANGED <<fTask, fGames, fNext, wk, wParams, got, fBatch, fGroupErr, sCtxDone,
                   fErr, fRows, flushes, injected, held, unthrottled>>

\* main.go:115-136 a sibling task of the phase fails: the phase's context is
\* cancelled
SiblingFails ==
    /\ fpc # "done"
    /\ ~sCtxDone
    /\ MayInject
    /\ sCtxDone' = TRUE
    /\ injected' = Inject("sibling")
    /\ UNCHANGED <<fTask, fpc, fYear, fGames, fNext, wk, wParams, got, fBatch, fGroupErr,
                   fErr, fRows, flushes, held, unthrottled>>

\* seeder.go:339-341, 360-362 SeedPlays: s.throttle(s.ctx) before the calendar
\* fetch and before each week's fetch
SeqThrottle ==
    /\ fTask = "SeedPlays"
    /\ fpc \in {"yearThrottle", "weekThrottle"}
    /\ \/ /\ sCtxDone \/ MayInject
          /\ injected' = IF sCtxDone THEN injected ELSE Inject("throttle")
          /\ fErr' = "throttle"
          /\ fpc' = "done"
          /\ UNCHANGED held
       \/ /\ ~sCtxDone
          /\ held' = held \cup {0}
          /\ fpc' = IF fpc = "yearThrottle" THEN "calendar" ELSE "plays"
          /\ UNCHANGED <<injected, fErr>>
    /\ UNCHANGED <<fTask, fYear, fGames, fNext, wk, wParams, got, fBatch, fGroupErr,
                   sCtxDone, fRows, flushes, unthrottled>>

\* a task that logs a failed fetch and goes on with the next year
FetchErrorSkipsYear == "next"

\* seeder.go:349-356, 369-382 a failed fetch makes the task return the error
FetchErrorAborts == "done"

\* seeder.go:346-356 SeedPlays: GetCalendar for the year
SeqCalendar ==
    /\ fTask = "SeedPlays"
    /\ fpc = "calendar"
    /\ Request(0)
    /\ \/ /\ sCtxDone \/ MayInject
          /\ injected' = IF sCtxDone THEN injected ELSE Inject("fetch")
          /\ fErr' = "fetch"
          /\ fpc' = FetchErrorAborts
          /\ UNCHANGED <<fGames, fNext>>
       \/ /\ ~sCtxDone
          /\ \E w \in 0..MaxWeeks :
                /\ fGames' = w
                /\ fpc' = IF w = 0 THEN "next" ELSE WeekLoopHead
          /\ fNext' = 1
          /\ UNCHANGED <<injected, fErr>>
    /\ UNCHANGED <<fTask, fYear, wk, wParams, got, fBatch, fGroupErr, sCtxDone, fRows,
                   flushes>>

\* seeder.go:358, 399 the week loop goes on or ends
AfterWeek == IF fNext + 1 > fGames THEN "next" ELSE WeekLoopHead

\* seeder.go:364-382 SeedPlays: GetPlays for the week
SeqPlays ==
    /\ fTask = "SeedPlays"
    /\ fpc = "plays"
    /\ Request(0)
    /\ \/ /\ sCtxDone \/ MayInject
          /\ injected' = IF sCtxDone THEN injected ELSE Inject("fetch")
          /\ fErr' = "fetch"
          /\ fpc' = FetchErrorAborts
          /\ UNCHANGED fNext
       \/ /\ ~sCtxDone
          /\ \/ /\ fpc' = "insert"
                /\ UNCHANGED fNext
             \/ /\ fpc' = AfterWeek
                /\ fNext' = fNext + 1
          /\ UNCHANGED <<injected, fErr>>
    /\ UNCHANGED <<fTask, fYear, fGames, wk, wParams, got, fBatch, fGroupErr, sCtxDone,
                   fRows, flushes>>

\* seeder.go:384-388 SeedPlays: InsertPlays of a week with plays
SeqInsert ==
    /\ fTask = "SeedPlays"
    /\ fpc = "insert"
    /\ \/ /\ sCtxDone \/ MayInject
          /\ injected' = IF sCtxDone THEN injected ELSE Inject("write")
          /\ fErr' = "write"
          /\ fpc' = "done"
          /\ fRows' = FailedWriteLeaves(fRows)
          /\ UNCHANGED fNext
       \/ /\ ~sCtxDone
          /\ fRows' = fRows \cup {<<fYear, fNext>>}
          /\ fpc' = AfterWeek
          /\ fNext' = fNext + 1
          /\ UNCHANGED <<injected, fErr>>
    /\ UNCHANGED <<fTask, fYear, fGames, wk, wParams, got, fBatch, fGroupErr, sCtxDone,
                   flushes, held, unthrottled>>

InitTask ==
    /\ ProcessIdle
    /\ SiblingsIdle
    /\ BatchIdle
    /\ YearlyIdle
    /\ WriterIdle
    /\ LimiterIdle
    /\ fTask \in {"SeedPlays"} \cup FanOutTaskNames
    /\ fpc = YearLoopHead
    /\ fYear = 1
    /\ fGames = 0
    /\ fNext = 1
    /\ wk = [g \in Games |-> "none"]
    /\ wParams = [g \in Games |-> {}]
    /\ got = [g \in Games |-> "none"]
    /\ fBatch = {}
    /\ fGroupErr = "nil"
    /\ sCtxDone = FALSE
    /\ fErr = "nil"
    /\ fRows = {}
    /\ flushes = EmptyBag
    /\ injected = EmptyBag
    /\ held = {}
    /\ unthrottled = FALSE

NextTask ==
    \/ GetGameIDs /\ UNCHANGED exceptTask
    \/ Spawn /\ UNCHANGED exceptTask
    \/ SpawnEnds /\ UNCHANGED exceptTask
    \/ (\E g \in Games : WorkerThrottle(g)) /\ UNCHANGED exceptTask
    \/ (\E g \in Games : WorkerFetch(g)) /\ UNCHANGED exceptTask
    \/ (\E g \in Games : WorkerWrite(g)) /\ UNCHANGED exceptTask
    \/ (\E g \in Games : WorkerReturn(g)) /\ UNCHANGED exceptTask
    \/ GroupWait /\ UNCHANGED exceptTask
    \/ Drain /\ UNCHANGED exceptTask
    \/ NextYear /\ UNCHANGED exceptTask
    \/ SiblingFails /\ UNCHANGED exceptTask
    \/ SeqThrottle /\ UNCHANGED exceptTask
    \/ SeqCalendar /\ UNCHANGED exceptTask
    \/ SeqPlays /\ UNCHANGED exceptTask
    \/ SeqInsert /\ UNCHANGED exceptTask

SpecTask == InitTask /\ [][NextTask]_vars

\* a fan-out task at the start of its last year, the years before having
\* had no game IDs
InitLastYear ==
    /\ ProcessIdle
    /\ SiblingsIdle
    /\ BatchIdle
    /\ YearlyIdle
    /\ WriterIdle
    /\ LimiterIdle
    /\ fTask \in FanOutTaskNames
    /\ fpc = "getIDs"
    /\ fYear = NumYears
    /\ fGames = 0
    /\ fNext = 1
    /\ wk = [g \in Games |-> "none"]
    /\ wParams = [g \in Games |-> {}]
    /\ got = [g \in Games |-> "none"]
    /\ fBatch = {}
    /\ fGroupErr = "nil"
    /\ sCtxDone = FALSE
    /\ fErr = "nil"
    /\ fRows = {}
    /\ flushes = EmptyBag
    /\ injected = EmptyBag
    /\ held = {}
    /\ unthrottled = FALSE

\* the steps of a fan-out task in a phase whose other tasks do not fail
NextFanOut ==
    \/ GetGameIDs /\ UNCHANGED exceptTask
    \/ Spawn /\ UNCHANGED exceptTask
    \/ SpawnEnds /\ UNCHANGED exceptTask
    \/ (\E g \in Games : WorkerThrottle(g)) /\ UNCHANGED exceptTask
    \/ (\E g \in Games : WorkerFetch(g)) /\ UNCHANGED exceptTask
    \/ (\E g \in Games : WorkerWrite(g)) /\ UNCHANGED exceptTask
    \/ (\E g \in Games : WorkerReturn(g)) /\ UNCHANGED exceptTask
    \/ GroupWait /\ UNCHANGED exceptTask
    \/ Drain /\ UNCHANGED exceptTask
    \/ NextYear /\ UNCHANGED exceptTask

\* every upstream fetch and every store call returns, and the Go scheduler
\* runs every goroutine that can run: a task that can take a step takes one
FairFanOut == WF_vars(NextFanOut)

SpecFanOutFair == InitLastYear /\ [][NextFanOut]_vars /\ FairFanOut

\* the games of this year whose fetch returned an error
FetchErrors == {g \in Games : got[g] = "err"}

\* the games of this year that have a row
YearRows == {k \in Games : <<fYear, k>> \in fRows}

\* C5: in a fan-out task, when exactly one per-game fetch of a year returns
\* an error and nothing else fails, no worker and no pool returns an error,
\* the task does not fail, and at the end of the year exactly the other
\* games of the year have been upserted.
FanOutIsolation ==
    (IsFanOut /\ injected = SetToBag({"fetch"}) /\ Cardinality(FetchErrors) = 1) =>
        /\ fErr = "nil"
        /\ fGroupErr = "nil"
        /\ \A g \in Games : wk[g] \notin Failing \cup {"retErr"}
        /\ fpc \in {"next", "done"} =>
              /\ YearRows = (1..fGames) \ FetchErrors
              /\ Cardinality(YearRows) = fGames - 1

\* A year of SeedAdvancedBoxScore with two and a half thresholds of games has
\* ended after one fetch failed.
FanOutIsolationWitness ==
    /\ fTask = "SeedAdvancedBoxScore"
    /\ fpc = "next"
    /\ fGames = MaxGames
    /\ injected = SetToBag({"fetch"})
    /\ Cardinality(FetchErrors) = 1
    /\ Cardinality(YearRows) = MaxGames - 1

\* C6: when a year of SeedAdvancedBoxScore with two and a half thresholds of
\* games ends with every game fetched, InsertAdvancedBoxScores has been
\* invoked exactly three times, twice by a worker with a threshold of
\* entries and once by the drain with the remainder; the three key sets are
\* pairwise disjoint and together are the fetched games.
FlushCorrectness ==
    (/\ fTask = "SeedAdvancedBoxScore"
     /\ fpc = "next"
     /\ fGames = MaxGames
     /\ \A g \in Games : got[g] = "record") =>
        /\ BagCardinality(flushes) = 3
        /\ \E a, b, d \in BagToSet(flushes) :
              /\ a # b
              /\ a.by = "worker" /\ b.by = "worker" /\ d.by = "drain"
              /\ a.ok /\ b.ok /\ d.ok
              /\ Cardinality(a.keys) = FlushThreshold
              /\ Cardinality(b.keys) = FlushThreshold
              /\ Cardinality(d.keys) = MaxGames - 2 * FlushThreshold
              /\ a.keys \cap b.keys = {}
              /\ a.keys \cap d.keys = {}
              /\ b.keys \cap d.keys = {}
              /\ a.keys \cup b.keys \cup d.keys = Games
        /\ YearRows = Games

\* Such a year has ended, and the workers did not add in the order of the
\* game IDs: a flush holds games 1 and 3 but not game 2.
FlushCorrectnessWitness ==
    /\ fTask = "SeedAdvancedBoxScore"
    /\ fpc = "next"
    /\ fGames = MaxGames
    /\ \A g \in Games : got[g] = "record"
    /\ \E f \in BagToSet(flushes) : f.by = "worker" /\ {1, 3} \subseteq f.keys /\ 2 \notin f.keys

\* C8: every upstream request of a task or worker is preceded by a
\* successful throttle call of its own made after its previous request.
ThrottleBeforeRequest == ~unthrottled

\* SeedPlays has issued the request of the second week of the second year,
\* and a worker of a fan-out task would have issued one of its own.
ThrottleBeforeRequestWitness ==
    /\ fTask = "SeedPlays"
    /\ fYear = 2
    /\ fpc = "insert"
    /\ fNext = 2
    /\ held = {}

(***************************************************************************)
(* Claims about errors inside a task (checked under SpecTask).             *)
(***************************************************************************)
\* the writer calls of this year that returned an error
FailedWrites == {f \in BagToSet(flushes) : ~f.ok}

\* a writer call of the task has returned an error
WriteFailed == FailedWrites # {} \/ fErr = "write"

\* the task goes on to no further year and no drain and returns an error,
\* and a worker whose write failed returns the error to the pool
FailedWriteEndsTask ==
    WriteFailed =>
        /\ fpc \in {"spawn", "wait", "done"}
        /\ fpc = "done" => fErr # "nil"
        /\ (IsFanOut /\ fErr # "write") =>
              \E g \in Games : wk[g] = "errWrite" \/ (wk[g] = "retErr" /\ fGroupErr # "nil")

\* a failed writer call is not made again: it stays the only call with its
\* keys
FailedWriteNotRepeated ==
    \A f \in FailedWrites :
        /\ CopiesIn(f, flushes') = 1
        /\ \A h \in BagToSet(flushes') : h # f => h.keys \cap f.keys = {}

\* C15, as stated: once a writer call of the task has returned an error, the
\* task returns an error, does not make the failed call again, and no later
\* writer call of the task writes a row.
NoLaterWrite ==
    /\ []FailedWriteEndsTask
    /\ [][WriteFailed => (FailedWriteNotRepeated /\ fRows' = fRows)]_vars

\* C15, amended: once a writer call of the task has returned an error, the
\* task returns an error and does not make the failed call again; the
\* sequential task, the drain, and a pool whose context is cancelled write
\* no row afterwards, while in a fan-out task a worker that was already
\* running may still write its own keys until the failing worker has
\* returned the error to the pool.
WriteErrorFatal ==
    /\ []FailedWriteEndsTask
    /\ [][WriteFailed =>
             /\ FailedWriteNotRepeated
             /\ (~IsFanOut \/ Cancelled \/ fpc = "done") => fRows' = fRows
             /\ \A h \in BagToSet(flushes') \ BagToSet(flushes) : h.by = "worker"
             /\ \A g \in Games : wk[g] \in {"errWrite", "retErr"} =>
                                     wk'[g] \in {"errWrite", "retErr"}]_vars

\* SeedAdvancedBoxScore has returned the error of a threshold flush; a second
\* worker, which held the next batch, has failed too, and a year has rows.
WriteErrorFatalWitness ==
    /\ fTask = "SeedAdvancedBoxScore"
    /\ fpc = "done"
    /\ fErr = "write"
    /\ Cardinality(FailedWrites) = 2
    /\ injected = SetToBag({"write"})
    /\ fRows # {}

\* C16: once the phase's context is cancelled, a throttle call of the task
\* or of one of its workers returns an error without an acquisition: the
\* task returns the error; the worker issues no request and writes nothing,
\* returns the error to the pool, and the fan-out task returns an error;
\* after its return the task issues no request and writes nothing.
CancelStopsSiblings ==
    /\ []((sCtxDone /\ fpc = "done" /\ \E g \in Games : wk[g] = "retErr") => fErr # "nil")
    /\ [][sCtxDone =>
             /\ (fpc \in {"yearThrottle", "weekThrottle"} /\ fpc' # fpc) =>
                   /\ fpc' = "done"
                   /\ fErr' = "throttle"
                   /\ UNCHANGED <<held, unthrottled, fRows>>
             /\ \A g \in Games :
                   /\ (wk[g] = "throttle" /\ wk'[g] # "throttle") =>
                         /\ wk'[g] = "errThrottle"
                         /\ UNCHANGED <<held, unthrottled, fRows, got>>
                   /\ (wk[g] = "errThrottle" /\ wk'[g] # "errThrottle") =>
                         /\ wk'[g] = "retErr"
                         /\ fGroupErr' # "nil"
                         /\ UNCHANGED <<held, unthrottled, fRows, got>>
                   /\ wk[g] = "retErr" => wk'[g] = "retErr"
             /\ fpc = "done" => UNCHANGED <<held, unthrottled, fRows, got, fErr>>]_vars

\* A fan-out task whose phase was cancelled by a sibling, and nothing else,
\* has returned the throttle error of a worker, after writing rows.
CancelStopsSiblingsWitness ==
    /\ IsFanOut
    /\ sCtxDone
    /\ injected = SetToBag({"sibling"})
    /\ fpc = "done"
    /\ fErr = "throttle"
    /\ fRows # {}

\* C19: in the non-fan-out task, once a fetch (of the calendar or of a week)
\* has failed, the task has returned that error; and a task that has
\* returned issues no request and writes nothing.
FetchErrorFatal ==
    /\ []((~IsFanOut /\ (BagIn("fetch", injected) \/ fErr = "fetch")) =>
             (fpc = "done" /\ fErr = "fetch"))
    /\ [][(~IsFanOut /\ fErr = "fetch") =>
             UNCHANGED <<fpc, fRows, held, unthrottled, fYear, fNext>>]_vars

\* SeedPlays has returned the error of a fetch of the second year, after
\* writing weeks of the first.
FetchErrorFatalWitness ==
    /\ fTask = "SeedPlays"
    /\ fpc = "done"
    /\ fErr = "fetch"
    /\ injected = SetToBag({"fetch"})
    /\ fYear = 2
    /\ \E w \in 1..MaxWeeks : <<1, w>> \in fRows

\* C20: once a throttle call has failed, the request it guarded has not been
\* issued, and the task returns the error: the sequential task at once, the
\* fan-out task, whose worker returns the error to the pool instead of
\* swallowing it, when the pool's Wait returns.
ThrottleFailureFatal ==
    BagIn("throttle", injected) =>
        /\ ~IsFanOut => (fpc = "done" /\ fErr = "throttle" /\ 0 \notin held)
        /\ IsFanOut =>
              /\ fpc \in {"spawn", "wait", "done"}
              /\ fpc = "done" => fErr # "nil"
              /\ \E g \in Games :
                    /\ wk[g] = "errThrottle" \/ (wk[g] = "retErr" /\ fGroupErr # "nil")
                    /\ got[g] = "none"
                    /\ g \notin held

\* SeedWinProbability has returned the throttle error of a worker of its
\* second year.
ThrottleFailureFatalWitness ==
    /\ fTask = "SeedWinProbability"
    /\ fpc = "done"
    /\ fErr = "throttle"
    /\ injected = SetToBag({"throttle"})
    /\ fYear = 2
    /\ fRows # {}

\* the upstream requests of the task that may be in progress: a worker
\* between its throttle and the end of its fetch, or the task itself
InFlight ==
    IF IsFanOut
    THEN {g \in Games : wk[g] = "fetch"}
    ELSE IF fpc \in {"calendar", "plays"} THEN {0} ELSE {}

\* C21: a fan-out task never has more workers in flight than the limit of
\* its pool, however many game IDs the year has and whether or not the
\* phase was cancelled by a sibling; so a fan-out task has at most that many
\* upstream requests in progress, and a sequential task at most one.
PoolBound ==
    /\ Cardinality(Active) <= PoolLimit
    /\ Active \subseteq 1..fGames
    /\ InFlight \subseteq (IF IsFanOut THEN Active ELSE {0})
    /\ Cardinality(InFlight) <= (IF IsFanOut THEN PoolLimit ELSE 1)
    /\ Cardinality(held) <= (IF IsFanOut THEN PoolLimit ELSE 1)

\* A year with more game IDs than the pool has room for: the pool is full of
\* workers that are fetching, and game IDs are still waiting in the loop.
PoolBoundWitness ==
    /\ IsFanOut
    /\ fGames = MaxGames
    /\ fpc = "spawn"
    /\ fNext <= fGames
    /\ Cardinality(InFlight) = PoolLimit

\* the workers of SeedAdvancedBoxScore whose store write is in progress
Flushing == {g \in Games : fTask = "SeedAdvancedBoxScore" /\ wk[g] = "write"}

\* C22: the worker whose add brings the accumulator to the threshold writes
\* it while holding the mutex: at most one write of a worker is in progress
\* at a time, and while it is in progress no other worker adds to the
\* accumulator or takes it over.
FlushUnderLock ==
    /\ [](Cardinality(Flushing) <= 1)
    /\ [][\A g \in Flushing :
             g \in Flushing' => (fBatch' = fBatch /\ Flushing' = Flushing)]_vars

\* the writer calls of the pool that return nil in this step
NewFlushes ==
    {f \in BagToSet(flushes') : f.ok /\ CopiesIn(f, flushes') > CopiesIn(f, flushes)}

\* C24: a row written by a completed writer call stays: no step of the task,
\* and in particular no failure of a throttle, fetch or write and no
\* cancellation of the phase or of the pool, takes a row away; the rows of a
\* writer call that returns nil are in the store from then on.
WritesAreKept ==
    [][/\ fRows \subseteq fRows'
       /\ \A f \in NewFlushes : {<<fYear, k>> : k \in RecordsOf(f.keys)} \subseteq fRows'
       /\ (fErr' # fErr \/ sCtxDone' # sCtxDone \/ fGroupErr' # fGroupErr
             \/ FailedWrites' # FailedWrites) => fRows' = fRows
       /\ (fErr # "nil" \/ sCtxDone) => fRows' = fRows]_vars

\* A task has failed on a write in its second year, and the rows it wrote in
\* the first year and earlier in the second are there.
WritesAreKeptWitness ==
    /\ fpc = "done"
    /\ fErr = "write"
    /\ fYear = 2
    /\ \E k \in Games : <<1, k>> \in fRows
    /\ \E k \in Games : <<2, k>> \in fRows

\* the writer calls of the task that are made in this step
StartedFlushes ==
    {f \in BagToSet(flushes') : CopiesIn(f, flushes') > CopiesIn(f, flushes)}

\* C30: a fan-out task takes the years one after another: it moves to the
\* next year only when every worker of the year has returned without an
\* error and the remainder of the year is written; workers are started only
\* by the spawning loop of the current year; the accumulator and the pool
\* are fresh when a year's spawning starts, and every writer call holds game
\* IDs fetched by workers of the current year and writes rows of that year
\* only; a year whose pool ends with an error ends the task with no drain,
\* and after the task's error nothing is fetched or written.
YearsSequential ==
    [][IsFanOut =>
         /\ fYear' # fYear =>
               /\ fYear' = fYear + 1
               /\ fpc = "next"
               /\ Active = {}
               /\ \A g \in Games : wParams[g] = {}
               /\ fErr = "nil" /\ fGroupErr = "nil"
               /\ \A k \in RecordsOf(fBatch) : <<fYear, k>> \in fRows
         /\ \A g \in Games :
               (wk[g] = "none" /\ wk'[g] # "none") => (fpc = "spawn" /\ fYear' = fYear)
         /\ (fpc # "spawn" /\ fpc' = "spawn") =>
               /\ fBatch' = {}
               /\ \A g \in Games : wk'[g] = "none" /\ wParams'[g] = {} /\ got'[g] = "none"
         /\ \A f \in StartedFlushes :
               /\ f.keys \subseteq {g \in Games : wk[g] # "none" /\ got[g] # "none"}
               /\ fRows' \ fRows \subseteq {<<fYear, k>> : k \in f.keys}
         /\ (fpc = "wait" /\ fGroupErr # "nil" /\ fpc' # fpc) =>
               /\ fpc' = "done"
               /\ fErr' = fGroupErr
               /\ flushes' = flushes /\ fRows' = fRows
         /\ fErr # "nil" =>
               /\ fpc = "done"
               /\ fYear' = fYear /\ got' = got /\ flushes' = flushes /\ fRows' = fRows]_vars

\* SeedAdvancedBoxScore is in its second year with a worker fetching, and
\* the rows of the first year are written.
YearsSequentialWitness ==
    /\ fTask = "SeedAdvancedBoxScore"
    /\ fYear = 2
    /\ fpc = "spawn"
    /\ \E g \in Games : wk[g] = "fetch"
    /\ \E k \in Games : <<1, k>> \in fRows

\* C25: when every fetch and every store call returns, a fan-out task in
\* its last year returns, also after a failure; once a worker's error has cancelled the
\* pool's context the error is kept, the spawning loop ends only after it has
\* handed every game ID to the pool, a worker that comes to its throttle
\* fails there without a fetch, a write or a held token, and Wait returns
\* the error that cancelled the pool.
FanOutReturns ==
    /\ IsFanOut ~> (fpc = "done")
    /\ [][IsFanOut =>
            /\ (fpc = "spawn" /\ fpc' # "spawn") =>
                  (fNext = fGames + 1 /\ \A g \in 1..fGames : wk[g] # "none")
            /\ fGroupErr # "nil" =>
                  /\ fGroupErr' = fGroupErr
                  /\ \A g \in Games :
                        (wk[g] = "throttle" /\ wk'[g] # "throttle") =>
                            /\ wk'[g] = "errThrottle"
                            /\ got' = got /\ held' = held
                            /\ fRows' = fRows /\ flushes' = flushes
                  /\ (fpc = "wait" /\ fpc' # "wait") =>
                        (fpc' = "done" /\ fErr' = fGroupErr)]_vars

\* A fan-out task has returned the error of its pool, and a worker that was
\* started after the pool's cancellation has failed at its throttle without
\* a fetch.
FanOutReturnsWitness ==
    /\ IsFanOut
    /\ fpc = "done"
    /\ fErr = "write"
    /\ fGroupErr = "write"
    /\ \E g \in Games : wk[g] = "retErr" /\ got[g] = "none"

(***************************************************************************)
(* The rate limiter behind Seeder.throttle: a token bucket that hands out  *)
(* reservations.  Time is counted in ticks, TicksPerToken of them for one  *)
(* token; the bucket is counted in ticks' worth of tokens.                 *)
(***************************************************************************)
\* the callers of a phase: its tasks, with WorkerLimit workers in place of
\* each fan-out task
CallersOf(k) ==
    LET all == {PhaseTable[k][i] : i \in 1..Len(PhaseTable[k])}
    IN Cardinality(all \ FanOutTaskNames) + WorkerLimit * Cardinality(all \cap FanOutTaskNames)

\* the most callers the limiter has at one time
MaxCallers ==
    LET n == [k \in 1..NumPhases |-> CallersOf(k)]
    IN CHOOSE m \in Range(n) : \A k \in 1..NumPhases : n[k] <= m

\* a wait bound of the time of one token
WaitTicksTiny == TicksPerToken

\* seeder.go:52 the deadline of a throttle call, in ticks after the call
WaitTicks == WaitSeconds * TicksPerSecond

\* a reservation is honoured at once whatever the bucket holds
NoWait(t) == 0

\* rate.Limiter.reserveN: the wait of a reservation that leaves the bucket
\* at t, one tick for each tick's worth of tokens owed
WaitFor(t) == IF t < 0 THEN -t ELSE 0

\* rate.Limiter.advance: the bucket after one more tick, never above the burst
Refill(t) == Min(Capacity, t + 1)

\* a caller other than the named one can call: not all of them are waiting
\* or cancelled
CanCall ==
    Cardinality(waits) + cancels < MaxCallers - (IF ppc = "absent" THEN 0 ELSE 1)

Count(n, max) == Min(max, n + 1)

\* seeder.go:47-60 a caller's throttle: Wait reserves a token; it returns nil
\* at once when no wait is due, an error at once when the wait would pass
\* the deadline, and waits otherwise
Call ==
    /\ CanCall
    /\ LET t == tokens - TicksPerToken
       IN IF WaitFor(t) > WaitTicks
          THEN /\ rejected' = TRUE
               /\ UNCHANGED <<tokens, waits, granted>>
          ELSE /\ tokens' = t
               /\ IF WaitFor(t) = 0
                  THEN /\ granted' = Count(granted, MaxGranted)
                       /\ UNCHANGED waits
                  ELSE /\ waits' = waits \cup {WaitFor(t)}
                       /\ UNCHANGED granted
               /\ UNCHANGED rejected
    /\ UNCHANGED <<ppc, pWait, pLast, elapsed, cancels>>

\* seeder.go:47-60 the same, by the caller followed by name
ProbeCall ==
    /\ ppc = "idle"
    /\ LET t == tokens - TicksPerToken
       IN IF WaitFor(t) > WaitTicks
          THEN /\ rejected' = TRUE
               /\ pLast' = "rejected"
               /\ UNCHANGED <<tokens, ppc, pWait, granted>>
          ELSE /\ tokens' = t
               /\ IF WaitFor(t) = 0
                  THEN /\ granted' = Count(granted, MaxGranted)
                       /\ pLast' = "granted"
                       /\ UNCHANGED <<ppc, pWait>>
                  ELSE /\ ppc' = "waiting"
                       /\ pWait' = WaitFor(t)
                       /\ UNCHANGED <<granted, pLast>>
               /\ UNCHANGED rejected
    /\ UNCHANGED <<waits, elapsed, cancels>>

\* a tick of the clock passes, unless a waiting caller is due
Tick ==
    /\ 0 \notin waits
    /\ ~(ppc = "waiting" /\ pWait = 0)
    /\ tokens' = Refill(tokens)
    /\ waits' = {w - 1 : w \in waits}
    /\ pWait' = IF ppc = "waiting" THEN pWait - 1 ELSE pWait
    /\ elapsed' = Count(elapsed, MaxElapsed)
    /\ UNCHANGED <<ppc, pLast, granted, rejected, cancels>>

\* seeder.go:55-59 the wait of a caller is over: Wait returns nil
Release ==
    /\ 0 \in waits
    /\ waits' = waits \ {0}
    /\ granted' = Count(granted, MaxGranted)
    /\ UNCHANGED <<tokens, ppc, pWait, pLast, elapsed, rejected, cancels>>

\* seeder.go:55-59 the same, for the caller followed by name
ProbeRelease ==
    /\ ppc = "waiting"
    /\ pWait = 0
    /\ ppc' = "idle"
    /\ pLast' = "granted"
    /\ granted' = Count(granted, MaxGranted)
    /\ UNCHANGED <<tokens, waits, pWait, elapsed, rejected, cancels>>

\* the latest reservation is the one of wait w
IsLatest(w) ==
    /\ \A v \in waits : v <= w
    /\ ppc = "waiting" => pWait <= w

\* rate.Reservation.Cancel: the token of the latest reservation goes back to
\* the bucket, the token of an earlier one is lost
Restored(w) == IF IsLatest(w) THEN Min(Capacity, tokens + TicksPerToken) ELSE tokens

\* the waiting callers whose cancellation is followed: the one that called
\* last and the one that has waited longest (which of the earlier
\* reservations is cancelled makes no difference to the bucket)
Cancellable == {w \in waits : (\A v \in waits : v <= w) \/ (\A v \in waits : w <= v)}

\* seeder.go:55-57 the context of a waiting caller is cancelled: Wait returns
\* an error, and the caller calls no more
Cancel ==
    /\ cancels < MaxCancels
    /\ \E w \in Cancellable :
          /\ w > 0
          /\ waits' = waits \ {w}
          /\ tokens' = Restored(w)
    /\ cancels' = cancels + 1
    /\ UNCHANGED <<ppc, pWait, pLast, granted, elapsed, rejected>>

InitLimiter ==
    /\ ProcessIdle
    /\ SiblingsIdle
    /\ BatchIdle
    /\ YearlyIdle
    /\ WriterIdle
    /\ TaskIdle
    /\ LimiterIdle

NextLimiter ==
    \/ Call /\ UNCHANGED exceptLimiter
    \/ Tick /\ UNCHANGED exceptLimiter
    \/ Release /\ UNCHANGED exceptLimiter
    \/ Cancel /\ UNCHANGED exceptLimiter

SpecLimiter == InitLimiter /\ [][NextLimiter]_vars

\* The same limiter with one of its callers followed by name; the counters
\* of acquisitions and ticks are not followed (they start where they stop).
InitCaller ==
    /\ ProcessIdle
    /\ SiblingsIdle
    /\ BatchIdle
    /\ YearlyIdle
    /\ WriterIdle
    /\ TaskIdle
    /\ tokens = Capacity
    /\ waits = {}
    /\ ppc = "idle"
    /\ pWait = 0
    /\ pLast = "none"
    /\ granted = MaxGranted
    /\ elapsed = MaxElapsed
    /\ rejected = FALSE
    /\ cancels = 0

NextCaller ==
    \/ Call /\ UNCHANGED exceptLimiter
    \/ ProbeCall /\ UNCHANGED exceptLimiter
    \/ Tick /\ UNCHANGED exceptLimiter
    \/ Release /\ UNCHANGED exceptLimiter
    \/ ProbeRelease /\ UNCHANGED exceptLimiter
    \/ Cancel /\ UNCHANGED exceptLimiter

\* Time passes and a caller whose wait is over returns.
FairCaller ==
    /\ WF_vars(Tick /\ UNCHANGED exceptLimiter)
    /\ WF_vars(Release /\ UNCHANGED exceptLimiter)
    /\ WF_vars(ProbeRelease /\ UNCHANGED exceptLimiter)

SpecCaller == InitCaller /\ [][NextCaller]_vars /\ FairCaller

\* C9: the throttle calls that have returned nil number at most the burst
\* while no time has passed, and N of them, N above the burst, take at least
\* (N - Burst) / Rate seconds.
RateBound ==
    /\ elapsed = 0 => granted <= Burst
    /\ elapsed < MaxElapsed => (granted - Burst) * TicksPerSecond <= elapsed * Rate

\* MaxExtraCalls acquisitions beyond the burst have been made in exactly the
\* time the limiter takes to add as many tokens.
RateBoundWitness ==
    /\ granted = Burst + MaxExtraCalls
    /\ elapsed = MaxExtraCalls * TicksPerToken
    /\ elapsed < MaxElapsed

\* C10: no throttle call whose context is not cancelled returns an error, the
\* wait of a call never exceeds the time of one token for each caller, and a
\* waiting caller is eventually granted its token.
NoRejectionNoStarvation ==
    /\ [](/\ ~rejected
          /\ \A w \in waits : w <= MaxCallers * TicksPerToken
          /\ pWait <= MaxCallers * TicksPerToken
          /\ MaxCallers * TicksPerToken <= WaitTicks)
    /\ (ppc = "waiting") ~> (ppc = "idle" /\ pLast = "granted")

\* Every caller the pipeline can have is waiting, the named one behind all
\* the others.
NoRejectionNoStarvationWitness ==
    /\ ppc = "waiting"
    /\ Cardinality(waits) = MaxCallers - 1
    /\ \A w \in waits : w < pWait
    /\ ~rejected

(***************************************************************************)
(* Two sibling tasks of phase 5, SeedWepaPassing and SeedWepaRushing, which *)
(* run concurrently and both write player_weighted_epa, keyed by           *)
(* (year, athlete_id), through InsertPlayerWeightedEPA.                    *)
(***************************************************************************)
\* how many records a WEPA response has at most
MaxMetrics == 2
\* CreateInBatches(models, 100) in InsertPlayerWeightedEPA
EpaBatchSize == 100

\* the athletes the upstream knows
Athletes == {1, 2}

\* the metrics an endpoint reports: GetPlayerPassingWEPA those of passing
\* plays, GetPlayerRushingWEPA those of rushing plays
WepaOf(t) == IF t = "SeedWepaPassing" THEN "passing" ELSE "rushing"

\* []*cfbd.PlayerWeightedEPA of the requested year (records present)
WepaResponses(t) == SeqsUpTo([athleteId : Athletes, wepa : {WepaOf(t)}], MaxMetrics)

\* db.go:2040-2055 the models of InsertPlayerWeightedEPA
EpaModels(y, metrics) ==
    [i \in 1..Len(metrics) |->
        [id |-> <<y, metrics[i].athleteId>>, cols |-> metrics[i].wepa]]

\* db.go:2032-2060 InsertPlayerWeightedEPA: OnConflict{UpdateAll: true} on the
\* primary key (year, athlete_id)
InsertPlayerWeightedEPA(tbl, y, metrics, fault) ==
    IF Len(metrics) = 0 THEN [err |-> "nil", rows |-> tbl]
    ELSE LET models == EpaModels(y, metrics)
             stmts == Chunks(models, EpaBatchSize)
         IN IF fault THEN [err |-> "fault", rows |-> tbl]
            ELSE IF \E k \in 1..Len(stmts) : RepeatsKey(stmts[k])
                 THEN [err |-> "conflict", rows |-> tbl]
            ELSE [err |-> "nil", rows |-> UpsertRows(tbl, models)]

\* seeder.go:1239-1241, 1283-1285 s.throttle(s.ctx)
SibThrottle(t) ==
    /\ sibPc[t] = "throttle"
    /\ \E ok \in BOOLEAN : sibPc' = [sibPc EXCEPT ![t] = IF ok THEN "fetch" ELSE "retErr"]
    /\ UNCHANGED <<sibYear, sibGot, epa>>

\* seeder.go:1243-1257, 1287-1301 the year's fetch; an error is returned
SibFetch(t) ==
    /\ sibPc[t] = "fetch"
    /\ \/ /\ sibPc' = [sibPc EXCEPT ![t] = "retErr"]
          /\ UNCHANGED sibGot
       \/ \E resp \in WepaResponses(t) :
             /\ sibGot' = [sibGot EXCEPT ![t][sibYear[t]] = resp]
             /\ sibPc' = [sibPc EXCEPT ![t] = "insert"]
    /\ UNCHANGED <<sibYear, epa>>

\* seeder.go:1259-1263, 1303-1307 the insert of a response with records, and
\* the next iteration of the range over supportedYears
SibInsert(t) ==
    /\ sibPc[t] = "insert"
    /\ \E fault \in BOOLEAN :
          LET metrics == sibGot[t][sibYear[t]]
              res == IF Len(metrics) > 0
                     THEN InsertPlayerWeightedEPA(epa, sibYear[t], metrics, fault)
                     ELSE [err |-> "nil", rows |-> epa]
          IN /\ epa' = res.rows
             /\ IF res.err # "nil"
                THEN sibPc' = [sibPc EXCEPT ![t] = "retErr"] /\ UNCHANGED sibYear
                ELSE IF sibYear[t] < NumYears
                     THEN /\ sibYear' = [sibYear EXCEPT ![t] = sibYear[t] + 1]
                          /\ sibPc' = [sibPc EXCEPT ![t] = "throttle"]
                     ELSE sibPc' = [sibPc EXCEPT ![t] = "retNil"] /\ UNCHANGED sibYear
    /\ UNCHANGED sibGot

InitSiblings ==
    /\ ProcessIdle
    /\ WriterIdle
    /\ TaskIdle
    /\ LimiterIdle
    /\ BatchIdle
    /\ YearlyIdle
    /\ sibPc = [t \in Siblings |-> "throttle"]
    /\ sibYear = [t \in Siblings |-> 1]
    /\ sibGot = [t \in Siblings |-> [y \in 1..NumYears |-> <<>>]]
    /\ epa = <<>>

NextSiblings ==
    \/ (\E t \in Siblings : SibThrottle(t)) /\ UNCHANGED exceptSiblings
    \/ (\E t \in Siblings : SibFetch(t)) /\ UNCHANGED exceptSiblings
    \/ (\E t \in Siblings : SibInsert(t)) /\ UNCHANGED exceptSiblings

SpecSiblings == InitSiblings /\ [][NextSiblings]_vars

\* the table after task t has written, year by year, what it fetched
RECURSIVE WrittenBy(_, _, _)
WrittenBy(tbl, t, y) ==
    IF y > NumYears THEN tbl
    ELSE WrittenBy(UpsertRows(tbl, EpaModels(y, sibGot[t][y])), t, y + 1)

\* the table when SeedWepaPassing runs to its end before SeedWepaRushing begins
PassingThenRushing ==
    WrittenBy(WrittenBy(<<>>, "SeedWepaPassing", 1), "SeedWepaRushing", 1)

\* C14: order independence. When both sibling tasks have returned nil, the
\* table is the one that the same responses give when the tasks run one after
\* the other: the interleaving of the siblings makes no difference.
OrderIndependence ==
    (\A t \in Siblings : sibPc[t] = "retNil") => epa = PassingThenRushing

(***************************************************************************)
(* The accumulator of SeedAdvancedBoxScore in one year without failures,   *)
(* by the sizes of the map and of the maps being written, with a pool      *)
(* large enough for several writes to be in progress at once.              *)
(***************************************************************************)
\* group.SetLimit(10), scaled down
BatchPoolLimit == 3

\* the game IDs a year can have, at most: every worker of the pool can
\* take a full map over
MaxBatchGames == BatchPoolLimit * FlushThreshold

\* the workers of the pool that have not returned
BatchActive == bFetching + BagCardinality(bParams)

\* seeder.go:649-651 group.Go: blocks while the pool is full
BatchSpawn ==
    /\ bPc = "spawn"
    /\ bNext < bGames
    /\ BatchActive < BatchPoolLimit
    /\ bNext' = bNext + 1
    /\ bFetching' = bFetching + 1
    /\ UNCHANGED <<bPc, bGames, bLen, bParams, bWritten>>

\* seeder.go:649 the range over gameIDs ends
BatchSpawnEnds ==
    /\ bPc = "spawn"
    /\ bNext = bGames
    /\ bPc' = "wait"
    /\ UNCHANGED <<bGames, bNext, bFetching, bLen, bParams, bWritten>>

\* seeder.go:655-664 a worker's fetch fails: it returns nil without an add
BatchFetchFails ==
    /\ bFetching > 0
    /\ bFetching' = bFetching - 1
    /\ UNCHANGED <<bPc, bGames, bNext, bLen, bParams, bWritten>>

\* seeder.go:666-676 mu.Lock ... mu.Unlock: the entry is added and, at the
\* threshold, the map is taken over by the worker and replaced by a fresh
\* one; the worker writes what it took after the unlock
BatchAdd ==
    /\ bFetching > 0
    /\ bFetching' = bFetching - 1
    /\ IF bLen + 1 >= FlushThreshold
       THEN /\ bParams' = bParams (+) SetToBag({bLen + 1})
            /\ bLen' = 0
       ELSE /\ bLen' = bLen + 1
            /\ UNCHANGED bParams
    /\ UNCHANGED <<bPc, bGames, bNext, bWritten>>

\* seeder.go:673 InsertAdvancedBoxScores(ctx, params) returns nil, and with
\* it the worker
BatchWrite ==
    /\ \E n \in BagToSet(bParams) :
          /\ bParams' = bParams (-) SetToBag({n})
          /\ bWritten' = bWritten + n
    /\ UNCHANGED <<bPc, bGames, bNext, bFetching, bLen>>

\* seeder.go:679-689 group.Wait returns and the remainder is written
BatchWaitAndDrain ==
    /\ bPc = "wait"
    /\ BatchActive = 0
    /\ bWritten' = bWritten + bLen
    /\ bLen' = 0
    /\ bPc' = "done"
    /\ UNCHANGED <<bGames, bNext, bFetching, bParams>>

InitBatch ==
    /\ ProcessIdle
    /\ WriterIdle
    /\ TaskIdle
    /\ LimiterIdle
    /\ SiblingsIdle
    /\ YearlyIdle
    /\ bPc = "spawn"
    /\ bGames \in 0..MaxBatchGames
    /\ bNext = 0
    /\ bFetching = 0
    /\ bLen = 0
    /\ bParams = EmptyBag
    /\ bWritten = 0

NextBatch ==
    \/ BatchSpawn /\ UNCHANGED exceptBatch
    \/ BatchSpawnEnds /\ UNCHANGED exceptBatch
    \/ BatchFetchFails /\ UNCHANGED exceptBatch
    \/ BatchAdd /\ UNCHANGED exceptBatch
    \/ BatchWrite /\ UNCHANGED exceptBatch
    \/ BatchWaitAndDrain /\ UNCHANGED exceptBatch

SpecBatch == InitBatch /\ [][NextBatch]_vars

\* the entries of the maps being written
RECURSIVE SumOf(_, _)
SumOf(sizes, bag) ==
    IF sizes = {} THEN 0
    ELSE LET n == CHOOSE n \in sizes : TRUE
         IN n * CopiesIn(n, bag) + SumOf(sizes \ {n}, bag)

\* the entries the accumulator has accepted whose write has not completed
Unflushed == bLen + SumOf(BagToSet(bParams), bParams)

\* C23: the entries the accumulator has accepted and whose store write has
\* not completed are never more than the flush threshold plus the limit of
\* the pool.
AccumulatorBound == Unflushed <= FlushThreshold + BatchPoolLimit

(***************************************************************************)
(* The tasks that fetch once per supported year: SeedCalendar and          *)
(* SeedGames, which collect the years and call their writer once, and      *)
(* SeedDrives, which calls its writer in every year.                       *)
(***************************************************************************)
\* how many records the fetch of one year returns at most
MaxYearRecs == 2

YearlyTasks == {"SeedCalendar", "SeedGames", "SeedDrives"}

\* a task that writes every year as it is fetched
WritesEveryYear(t) == FALSE

\* seeder.go:240, 259-261, 270, 289-291 `all = append(all, ...)` in the loop
\* and one writer call after it; seeder.go:318-319 SeedDrives writes inside
\* the loop
WritesAtEnd(t) == t \in {"SeedCalendar", "SeedGames"}

\* n records of a year
YearRecs(y, n) == {<<y, i>> : i \in 1..n}

\* seeder.go:242-244, 272-274, 303-305 s.throttle(s.ctx)
YearThrottle ==
    /\ yPc = "throttle"
    /\ \/ /\ yErr' = "throttle"
          /\ yPc' = "done"
       \/ /\ yPc' = "fetch"
          /\ UNCHANGED yErr
    /\ UNCHANGED <<yTask, yYear, yGot, yAll, yRows, yWrites>>

\* seeder.go:246-258, 276-288, 307-315 the fetch of the year fails, or
\* returns its records, which SeedCalendar and SeedGames append to `all`
YearFetch ==
    /\ yPc = "fetch"
    /\ \/ /\ yErr' = "fetch"
          /\ yPc' = "done"
          /\ UNCHANGED <<yYear, yGot, yAll>>
       \/ \E n \in 0..MaxYearRecs :
             /\ yGot' = [yGot EXCEPT ![yYear] = n]
             /\ UNCHANGED yErr
             /\ IF WritesAtEnd(yTask)
                THEN /\ yAll' = yAll \cup YearRecs(yYear, n)
                     /\ IF yYear < NumYears
                        THEN yYear' = yYear + 1 /\ yPc' = "throttle"
                        ELSE yPc' = "insert" /\ UNCHANGED yYear
                ELSE /\ yAll' = YearRecs(yYear, n)
                     /\ yPc' = "insert"
                     /\ UNCHANGED yYear
    /\ UNCHANGED <<yTask, yRows, yWrites>>

\* seeder.go:261-266, 291-296 the one writer call of SeedCalendar and
\* SeedGames; seeder.go:317-330 the writer call of SeedDrives for a year
\* with records, and the next year
YearInsert ==
    /\ yPc = "insert"
    /\ IF ~WritesAtEnd(yTask) /\ yAll = {}
       THEN /\ UNCHANGED <<yRows, yWrites, yErr>>
            /\ IF yYear < NumYears
               THEN yYear' = yYear + 1 /\ yPc' = "throttle"
               ELSE yPc' = "done" /\ UNCHANGED yYear
       ELSE /\ yWrites' = yWrites + 1
            /\ \/ /\ yAll # {}
                  /\ yErr' = "write"
                  /\ yPc' = "done"
                  /\ UNCHANGED <<yRows, yYear>>
               \/ /\ yRows' = yRows \cup yAll
                  /\ UNCHANGED yErr
                  /\ IF ~WritesAtEnd(yTask) /\ yYear < NumYears
                     THEN yYear' = yYear + 1 /\ yPc' = "throttle"
                     ELSE yPc' = "done" /\ UNCHANGED yYear
    /\ UNCHANGED <<yTask, yGot, yAll>>

InitYearly ==
    /\ ProcessIdle
    /\ WriterIdle
    /\ TaskIdle
    /\ LimiterIdle
    /\ SiblingsIdle
    /\ BatchIdle
    /\ yTask \in YearlyTasks
    /\ yPc = "throttle"
    /\ yYear = 1
    /\ yGot = [y \in 1..NumYears |-> -1]
    /\ yAll = {}
    /\ yRows = {}
    /\ yWrites = 0
    /\ yErr = "nil"

NextYearly ==
    \/ YearThrottle /\ UNCHANGED exceptYearly
    \/ YearFetch /\ UNCHANGED exceptYearly
    \/ YearInsert /\ UNCHANGED exceptYearly

SpecYearly == InitYearly /\ [][NextYearly]_vars

\* the years whose fetch has returned its records
YearsFetched == {y \in 1..NumYears : yGot[y] >= 0}

\* the records the fetches have returned
Fetched == UNION {YearRecs(y, yGot[y]) : y \in YearsFetched}

\* C29: SeedCalendar and SeedGames make at most one writer call, and make
\* it only when the fetch of every supported year has returned its records;
\* when their throttle or a fetch fails they return the error with nothing
\* written and no writer call made, whatever was fetched before; when they
\* return nil the store holds what all the years returned.  SeedDrives, when
\* it returns an error in a year, has written the records of every year
\* before it.
CollectThenWrite ==
    /\ yTask \in {"SeedCalendar", "SeedGames"} =>
          /\ yWrites <= 1
          /\ (yWrites = 1 \/ yRows # {}) => YearsFetched = 1..NumYears
          /\ yErr \in {"throttle", "fetch"} => (yRows = {} /\ yWrites = 0)
          /\ yErr # "nil" => yRows = {}
          /\ (yPc = "done" /\ yErr = "nil") => (yRows = Fetched /\ yWrites = 1)
    /\ yTask = "SeedDrives" =>
          /\ yErr # "nil" =>
                \A y \in 1..(yYear - 1) : y \in YearsFetched /\ YearRecs(y, yGot[y]) \subseteq yRows
          /\ (yPc = "done" /\ yErr = "nil") => yRows = Fetched

\* SeedGames has returned the error of its second year's fetch, with the
\* games of the first year fetched and nothing written.
CollectThenWriteWitness ==
    /\ yTask = "SeedGames"
    /\ yPc = "done"
    /\ yErr = "fetch"
    /\ yYear = 2
    /\ yGot[1] > 0
    /\ yRows = {}
    /\ yWrites = 0
====
